---------------------------- MODULE Spec2Model ----------------------------
(***************************************************************************)
(* A model of the map client of Geographic-Data-Visualization: the spinner *)
(* visibility tracker (composables/useSpinner), the Map Orchestrator       *)
(* (MapContainer.vue) with its search / upload / area-export / prompt      *)
(* flows, the legend filter, the feature classifier and the readable-area  *)
(* override.                                                               *)
(*                                                                         *)
(* JavaScript is single threaded and runs every callback to completion: an *)
(* action of this module is one such run, from the event that starts it    *)
(* (a click, a settled promise, an expired timer) to its next `await` or   *)
(* its return.  window.confirm / alert are synchronous, so the answer to a *)
(* confirm is an input of the run that asks it.                            *)
(***************************************************************************)
EXTENDS Integers, Sequences, FiniteSets, TLC

VARIABLES
    spinner,      \* the state closed over by useSpinner(): count, isVisible, _timeout, armed timers
    lastCall,     \* the latest free call of the tracker's API and its arguments
    callers,      \* positions of the callers that show() once and later hide() once
    arg,          \* the argument(s) a pure function is called with
    ret,          \* what that call returned: <<>> before the call, <<value>> after it
    provided,     \* the shared helper object: _searchMarker, _geoJsonLayer, _aiLayer, _lastGeoJSON, _lastClip
    selected,     \* the legend's checkbox per category
    flows,        \* the invocations of the orchestrator's async functions, one per slot
    view,         \* what the map view is centred on
    effects,      \* what the latest run did to the outside: requests sent, prompts asked, alerts, downloads
    page,         \* the toolbar's refs and what it keeps in the browser: theme, data-theme, local storage
    locate,       \* the geolocation lookup: whether one is outstanding, the map's once-handlers, _locTimer
    onMap,        \* what the Leaflet map holds: the helper object's layers, layers nothing refers to, drawn shapes
    aiVisible,    \* the legend's AI-polygon checkbox
    chat          \* the chat widget's refs: prompt, loading, messages, latestGeojson, uploadedGeojson, error

vars == <<spinner, lastCall, callers, arg, ret, provided, selected, flows, view, effects, page, locate, onMap, aiVisible, chat>>

\* what the actions of one part of the model leave alone
orchestrator == <<provided, selected, flows, view, effects>>
notTracker == <<callers, arg, ret, orchestrator, page, locate, onMap, aiVisible, chat>>
notCallers == <<lastCall, arg, ret, orchestrator, page, locate, onMap, aiVisible, chat>>
notPure == <<spinner, lastCall, callers, orchestrator, page, locate, onMap, aiVisible, chat>>
notPage == <<spinner, callers, arg, ret, orchestrator, locate, onMap, aiVisible, chat>>

---------------------------------------------------------------------------
(* Bounds of the model *)

MaxCount == 4        \* show() is not called by the free-call actions beyond this count
NumCallers == 4      \* number of show-once/hide-once callers
NumFlows == 2        \* orchestrator flows that can be in flight at the same time
MaxFeatures == 2     \* features in a document the legend filters
MaxExport == 3       \* features in an answer of the geodata service
MaxLocate == 2       \* once-handlers of a kind registered on the map at a time

---------------------------------------------------------------------------
(* Small helpers *)

Max(a, b) == IF a >= b THEN a ELSE b

---------------------------------------------------------------------------
(* The orchestrator's state when MapContainer.vue has mounted: the helper  *)
(* object holds no marker, layer or document; the legend has every         *)
(* category checked; no flow is running.                                   *)

\* the legend's categories (the keys of `labels`)
Categories == {"residential", "commercial", "industrial", "education", "healthcare",
               "religious", "leisure", "tourism", "unknown"}

\* a GeoJSON value: its top-level type, its `features` array and, for a single
\* Feature, that feature itself; type "" is a missing type
Document(type, features, own) == [type |-> type, features |-> features, own |-> own]

NoDocument == Document("", <<>>, <<>>)

\* a File: whether its text parses as JSON, and to what
File(parse, doc) == [parse |-> parse, doc |-> doc]

\* a slot in which no invocation runs
IdleFlow ==
    [kind |-> "none", pc |-> "idle", query |-> <<>>, file |-> File("error", NoDocument),
     processed |-> NoDocument, uploadedFromPlaceEnrich |-> FALSE,
     shows |-> 0, hides |-> 0, prompted |-> FALSE, requested |-> FALSE, sent |-> <<>>]

\* const provided = {}: no field is set, which reads as null / undefined
MountedProvided ==
    [_searchMarker |-> "none", _geoJsonLayer |-> <<>>, _aiLayer |-> <<>>, _lastGeoJSON |-> <<>>,
     _lastClip |-> <<>>]

\* the page before the toolbar is mounted: const theme = ref('light'), q = ref(''), no
\* data-theme attribute; what the browser holds: localStorage['theme'] (<<>> when
\* absent), the OS-level dark-mode preference, whether local storage can be used
Unloaded(stored, prefersDark, storageWorks) ==
    [mounted |-> FALSE, q |-> <<>>, theme |-> "light", dataTheme |-> <<>>,
     localStorage |-> stored, prefersDark |-> prefersDark, storageWorks |-> storageWorks]

\* no lookup was started: map.locate was not called, no handler registered,
\* let _locTimer = null
NotLocating == [requested |-> FALSE, locationfound |-> 0, locationerror |-> 0, _locTimer |-> FALSE]

\* the map holds neither layer of the helper object, no layer nothing refers to and
\* no drawn shape
MountedMap == [_geoJsonLayer |-> FALSE, _aiLayer |-> FALSE, others |-> <<>>, drawnItems |-> <<>>]

\* the chat widget's refs as declared: one greeting of the AI in messages,
\* prompt = ref(''), loading = ref(false), error = ref(''), no document; handleSend
\* is not running and no request of the widget is in flight
MountedChat ==
    [prompt |-> <<>>, loading |-> FALSE, messages |-> <<"AI">>, error |-> FALSE,
     latestGeojson |-> <<>>, uploadedGeojson |-> <<>>, pc |-> "idle", requests |-> 0]

Mounted ==
    /\ onMap = MountedMap
    /\ aiVisible = TRUE
    /\ chat = MountedChat
    /\ provided = MountedProvided
    /\ selected = [k \in Categories |-> TRUE]
    /\ flows = [f \in 1..NumFlows |-> IdleFlow]
    /\ view = "start"
    /\ effects = {}
    /\ page = Unloaded(<<>>, FALSE, TRUE)
    /\ locate = NotLocating

\* <<quotient, remainder>> of n * m by d, for n >= 0, computed digit by digit of n so
\* that no intermediate product leaves the range of the checker's integers
RECURSIVE MulDivMod(_, _, _)
MulDivMod(n, m, d) ==
    IF n = 0 THEN <<0, 0>>
    ELSE LET h == MulDivMod(n \div 10, m, d)
             t == 10 * h[2] + (n % 10) * m
         IN  <<10 * h[1] + t \div d, t % d>>

---------------------------------------------------------------------------
(* The spinner visibility tracker, src/unnamed/part_000 (useSpinner)       *)
(*                                                                         *)
(* A timer handle is a positive integer; 0 stands for `null`.  `pending`   *)
(* is the set of timers this tracker armed with setTimeout and that were   *)
(* neither cleared nor fired; each remembers its delay.                    *)
(* An argument list is a sequence: <<>> is a call without argument,        *)
(* <<n>> a call with the number n.                                         *)

DefaultAutoHideMs == 60000

NoTimer == 0

\* useSpinner({ autoHideMs = 60000 } = {}): opts = <<>> for useSpinner(), <<n>> for
\* useSpinner({autoHideMs: n}); the state after
\* `const count = ref(0); const isVisible = ref(false); let _timeout = null`
useSpinner(opts) ==
    [autoHideMs |-> IF Len(opts) = 1 THEN opts[1] ELSE DefaultAutoHideMs,
     count |-> 0, isVisible |-> FALSE, timeout |-> NoTimer, pending |-> {}]

\* setTimeout returns a handle that is not in use: the smallest one, here, that is
\* neither armed nor still held in _timeout
NewHandle(s) ==
    CHOOSE h \in 1..(Cardinality(s.pending) + 2) :
        /\ h # s.timeout
        /\ \A t \in s.pending : t.id # h
        /\ \A g \in 1..(h - 1) : g = s.timeout \/ \E t \in s.pending : t.id = g

\* clearTimeout(h): the timer with that handle, if still armed, is disarmed
clearTimeout(pending, h) == {t \in pending : t.id # h}

\* _timeout = setTimeout(cb, ms)
setTimeout(s, ms) ==
    LET h == NewHandle(s)
    IN  [s EXCEPT !.timeout = h, !.pending = s.pending \cup {[id |-> h, ms |-> ms]}]

\* mutant: the old timer is left armed when a new one is set
ClearIfSet_keepArmed(s) == s

\* if (_timeout) clearTimeout(_timeout)     (the handle itself is kept)
ClearIfSet(s) ==
    IF s.timeout # NoTimer
    THEN [s EXCEPT !.pending = clearTimeout(s.pending, s.timeout)]
    ELSE s

_startAutoHide(s) ==
    LET c == ClearIfSet(s)
    IN  IF s.autoHideMs > 0 THEN setTimeout(c, s.autoHideMs) ELSE c

\* mutant: the handle is dropped without clearTimeout
_clearAutoHide_noClear(s) == [s EXCEPT !.timeout = NoTimer]

_clearAutoHide(s) ==
    IF s.timeout # NoTimer
    THEN [s EXCEPT !.pending = clearTimeout(s.pending, s.timeout), !.timeout = NoTimer]
    ELSE s

\* show(timeoutMs); args = <<>> for show(), <<n>> for show(n)
show(s, args) ==
    LET c == [s EXCEPT !.count = s.count + 1, !.isVisible = (s.count + 1 > 0)]
    IN  IF Len(args) = 1
        THEN LET d == ClearIfSet(c)
             IN  IF args[1] > 0 THEN setTimeout(d, args[1]) ELSE d
        ELSE _startAutoHide(c)

\* mutant: the decrement is not floored at 0
hide_noFloor(s) ==
    LET n == s.count - 1
        c == [s EXCEPT !.count = n, !.isVisible = (n > 0)]
    IN  IF n = 0 THEN _clearAutoHide(c) ELSE c

\* mutant: a boolean spinner, hide() always hides
hide_notCounted(s) ==
    _clearAutoHide([s EXCEPT !.count = 0, !.isVisible = FALSE])

hide(s) ==
    LET n == Max(0, s.count - 1)
        c == [s EXCEPT !.count = n, !.isVisible = (n > 0)]
    IN  IF n = 0 THEN _clearAutoHide(c) ELSE c

reset(s) ==
    _clearAutoHide([s EXCEPT !.count = 0, !.isVisible = FALSE])

\* the callback of an armed timer t runs: count = 0, isVisible = false, _timeout = null
autoHide(s, t) ==
    [s EXCEPT !.count = 0, !.isVisible = FALSE, !.timeout = NoTimer,
              !.pending = s.pending \ {t}]

---------------------------------------------------------------------------
(* Free calls of the tracker's API: any caller, any order *)

TimeoutArgs == {<<>>, <<0>>, <<250>>, <<5000>>}

\* the options a tracker is constructed with
SpinnerOptions == {<<>>, <<0>>, <<1000>>}

CallShow ==
    /\ spinner.count < MaxCount
    /\ \E args \in TimeoutArgs :
          /\ spinner' = show(spinner, args)
          /\ lastCall' = [op |-> "show", args |-> args]
    /\ UNCHANGED notTracker

CallHide ==
    /\ spinner' = hide(spinner)
    /\ lastCall' = [op |-> "hide", args |-> <<>>]
    /\ UNCHANGED notTracker

CallReset ==
    /\ spinner' = reset(spinner)
    /\ lastCall' = [op |-> "reset", args |-> <<>>]
    /\ UNCHANGED notTracker

\* an armed fallback timer expires and its callback runs
AutoHideFires ==
    /\ \E t \in spinner.pending : spinner' = autoHide(spinner, t)
    /\ lastCall' = [op |-> "autoHide", args |-> <<>>]
    /\ UNCHANGED notTracker

\* no pure function is being called
PureIdle == arg = <<>> /\ ret = <<>>

InitSpinner ==
    /\ \E opts \in SpinnerOptions : spinner = useSpinner(opts)
    /\ lastCall = [op |-> "none", args |-> <<>>]
    /\ callers = [c \in 1..NumCallers |-> "idle"]
    /\ PureIdle
    /\ Mounted

\* the tracker as MapContainer.vue builds it, `const spinner = useSpinner()`, unused
TrackerIdle ==
    /\ spinner = useSpinner(<<>>)
    /\ lastCall = [op |-> "none", args |-> <<>>]
    /\ callers = [c \in 1..NumCallers |-> "idle"]

NextSpinner == CallShow \/ CallHide \/ CallReset \/ AutoHideFires

SpecSpinner == InitSpinner /\ [][NextSpinner]_vars

---------------------------------------------------------------------------
(* Callers that each show() once and later hide() once, as the flows of    *)
(* the orchestrator do (handleSearch: show() ... hide()); no reset() and   *)
(* no timer expiry happens in this specification.                          *)

CallerShow(c) ==
    /\ callers[c] = "idle"
    /\ \E args \in TimeoutArgs : spinner' = show(spinner, args)
    /\ callers' = [callers EXCEPT ![c] = "shown"]
    /\ UNCHANGED notCallers

CallerHide(c) ==
    /\ callers[c] = "shown"
    /\ spinner' = hide(spinner)
    /\ callers' = [callers EXCEPT ![c] = "hidden"]
    /\ UNCHANGED notCallers

NextCallers == \E c \in 1..NumCallers : CallerShow(c) \/ CallerHide(c)

SpecCallers == InitSpinner /\ [][NextCallers]_vars

---------------------------------------------------------------------------
(* JavaScript strings are sequences of characters, so that toLowerCase and *)
(* includes do what they do in the code.  The empty sequence stands for    *)
(* the empty string and for an absent (undefined / null) property alike:   *)
(* both are falsy, and the code only tests these properties for truth      *)
(* before it reads them.                                                   *)

UpperCase == <<"A","B","C","D","E","F","G","H","I","J","K","L","M",
               "N","O","P","Q","R","S","T","U","V","W","X","Y","Z">>
LowerCase == <<"a","b","c","d","e","f","g","h","i","j","k","l","m",
               "n","o","p","q","r","s","t","u","v","w","x","y","z">>

toLowerCase(s) ==
    [i \in 1..Len(s) |->
        IF \E k \in 1..Len(UpperCase) : UpperCase[k] = s[i]
        THEN LowerCase[CHOOSE k \in 1..Len(UpperCase) : UpperCase[k] = s[i]]
        ELSE s[i]]

includes(s, sub) ==
    \E i \in 0..(Len(s) - Len(sub)) : SubSeq(s, i + 1, i + Len(sub)) = sub

Truthy(s) == Len(s) > 0

\* the string literals of the model, each a tuple of its characters
S ==
    [ school |-> <<"s", "c", "h", "o", "o", "l">>,
      university |-> <<"u", "n", "i", "v", "e", "r", "s", "i", "t", "y">>,
      hospital |-> <<"h", "o", "s", "p", "i", "t", "a", "l">>,
      clinic |-> <<"c", "l", "i", "n", "i", "c">>,
      doctors |-> <<"d", "o", "c", "t", "o", "r", "s">>,
      place_of_worship |-> <<"p", "l", "a", "c", "e", "_", "o", "f", "_", "w", "o", "r", "s", "h", "i", "p">>,
      cafe |-> <<"c", "a", "f", "e">>,
      resid |-> <<"r", "e", "s", "i", "d">>,
      house |-> <<"h", "o", "u", "s", "e">>,
      apartments |-> <<"a", "p", "a", "r", "t", "m", "e", "n", "t", "s">>,
      commer |-> <<"c", "o", "m", "m", "e", "r">>,
      retail |-> <<"r", "e", "t", "a", "i", "l">>,
      shop |-> <<"s", "h", "o", "p">>,
      indust |-> <<"i", "n", "d", "u", "s", "t">>,
      church |-> <<"c", "h", "u", "r", "c", "h">>,
      cathedral |-> <<"c", "a", "t", "h", "e", "d", "r", "a", "l">>,
      residential |-> <<"r", "e", "s", "i", "d", "e", "n", "t", "i", "a", "l">>,
      industrial |-> <<"i", "n", "d", "u", "s", "t", "r", "i", "a", "l">>,
      commercial |-> <<"c", "o", "m", "m", "e", "r", "c", "i", "a", "l">>,
      forest |-> <<"f", "o", "r", "e", "s", "t">>,
      park |-> <<"p", "a", "r", "k">>,
      farmland |-> <<"f", "a", "r", "m", "l", "a", "n", "d">>,
      School |-> <<"S", "c", "h", "o", "o", "l">>,
      Residential |-> <<"R", "e", "s", "i", "d", "e", "n", "t", "i", "a", "l">>,
      houseboat |-> <<"h", "o", "u", "s", "e", "b", "o", "a", "t">>,
      residential_shop |-> <<"r", "e", "s", "i", "d", "e", "n", "t", "i", "a", "l", "_", "s", "h", "o", "p">>,
      yes |-> <<"y", "e", "s">>,
      bakery |-> <<"b", "a", "k", "e", "r", "y">>,
      hotel |-> <<"h", "o", "t", "e", "l">>,
      Wien |-> <<"W", "i", "e", "n">>,
      blank |-> <<" ">> ]

---------------------------------------------------------------------------
(* Features and their classification, MapContainer.vue getFeatureType      *)
(*                                                                         *)
(* A feature is a record of the properties the code reads and of its       *)
(* geometry type ("none" when it has no geometry).                         *)

\* mutant: the building rule is tried before the amenity rule
getFeatureType_buildingFirst(feature) ==
    LET p == feature
    IN  IF Truthy(p.building) THEN
            LET b == toLowerCase(p.building)
            IN  IF includes(b, S.resid) \/ b = S.house \/ b = S.apartments THEN "residential"
                ELSE IF includes(b, S.commer) \/ includes(b, S.retail) \/ includes(b, S.shop)
                     THEN "commercial"
                ELSE IF includes(b, S.indust) THEN "industrial"
                ELSE IF includes(b, S.church) \/ includes(b, S.cathedral) THEN "religious"
                ELSE "building"
        ELSE IF Truthy(p.amenity) THEN
            LET a == toLowerCase(p.amenity)
            IN  IF a = S.school \/ a = S.university THEN "education"
                ELSE IF a = S.hospital \/ a = S.clinic \/ a = S.doctors THEN "healthcare"
                ELSE IF a = S.place_of_worship THEN "religious"
                ELSE "amenity"
        ELSE IF Truthy(p.shop) \/ Truthy(p.office) THEN "commercial"
        ELSE IF Truthy(p.leisure) THEN "leisure"
        ELSE IF Truthy(p.tourism) THEN "tourism"
        ELSE IF Truthy(p.landuse) /\ p.landuse = S.residential THEN "residential"
        ELSE IF Truthy(p.landuse) /\ p.landuse = S.industrial THEN "industrial"
        ELSE IF Truthy(p.landuse) /\ p.landuse = S.commercial THEN "commercial"
        ELSE IF Truthy(p.landuse) /\ (p.landuse = S.forest \/ p.landuse = S.park) THEN "leisure"
        ELSE IF p.geom = "Point" THEN "point"
        ELSE "unknown"

getFeatureType(feature) ==
    LET p == feature
    IN  IF Truthy(p.amenity) THEN
            LET a == toLowerCase(p.amenity)
            IN  IF a = S.school \/ a = S.university THEN "education"
                ELSE IF a = S.hospital \/ a = S.clinic \/ a = S.doctors THEN "healthcare"
                ELSE IF a = S.place_of_worship THEN "religious"
                ELSE "amenity"
        ELSE IF Truthy(p.building) THEN
            LET b == toLowerCase(p.building)
            IN  IF includes(b, S.resid) \/ b = S.house \/ b = S.apartments THEN "residential"
                ELSE IF includes(b, S.commer) \/ includes(b, S.retail) \/ includes(b, S.shop)
                     THEN "commercial"
                ELSE IF includes(b, S.indust) THEN "industrial"
                ELSE IF includes(b, S.church) \/ includes(b, S.cathedral) THEN "religious"
                ELSE "building"
        ELSE IF Truthy(p.shop) \/ Truthy(p.office) THEN "commercial"
        ELSE IF Truthy(p.leisure) THEN "leisure"
        ELSE IF Truthy(p.tourism) THEN "tourism"
        ELSE IF Truthy(p.landuse) /\ p.landuse = S.residential THEN "residential"
        ELSE IF Truthy(p.landuse) /\ p.landuse = S.industrial THEN "industrial"
        ELSE IF Truthy(p.landuse) /\ p.landuse = S.commercial THEN "commercial"
        ELSE IF Truthy(p.landuse) /\ (p.landuse = S.forest \/ p.landuse = S.park) THEN "leisure"
        ELSE IF p.geom = "Point" THEN "point"
        ELSE "unknown"

\* a feature with the given properties; the rest is absent
Feature(amenity, building, landuse, geom) ==
    [amenity |-> amenity, building |-> building, shop |-> <<>>, office |-> <<>>,
     leisure |-> <<>>, tourism |-> <<>>, landuse |-> landuse, geom |-> geom,
     ai_script |-> <<>>, uploaded |-> FALSE]

\* the features the classifier is tried on
AmenityValues == {<<>>, S.School, S.university, S.hospital, S.place_of_worship, S.cafe}
BuildingValues == {<<>>, S.house, S.houseboat, S.Residential, S.residential_shop, S.retail,
                   S.industrial, S.cathedral, S.yes}
LanduseValues == {<<>>, S.residential, S.Residential, S.industrial, S.commercial, S.forest,
                  S.park, S.farmland}
GeometryTypes == {"Point", "MultiPoint", "Polygon", "none"}

ClassifierInputs ==
    { [Feature(a, b, l, g) EXCEPT !.shop = s, !.office = o, !.leisure = le, !.tourism = t] :
        a \in AmenityValues, b \in BuildingValues, l \in LanduseValues,
        g \in GeometryTypes, s \in {<<>>, S.bakery}, o \in {<<>>, S.yes},
        le \in {<<>>, S.park}, t \in {<<>>, S.hotel} }

\* getFeatureType(feature) is called
Classify ==
    /\ ret = <<>>
    /\ ret' = <<getFeatureType(arg)>>
    /\ arg' = arg
    /\ UNCHANGED notPure

\* the same feature is classified once more
ClassifyAgain ==
    /\ ret # <<>>
    /\ ret' = <<getFeatureType(arg)>>
    /\ arg' = arg
    /\ UNCHANGED notPure

InitClassify ==
    /\ arg \in ClassifierInputs
    /\ ret = <<>>
    /\ TrackerIdle
    /\ Mounted

NextClassify == Classify \/ ClassifyAgain

SpecClassify == InitClassify /\ [][NextClassify]_vars

---------------------------------------------------------------------------
(* Claims about the classifier *)

\* the ordered rule list of the classification cascade: rule i applies to f ...
C9_RuleApplies(i, f) ==
    CASE i = 1 -> f.amenity # <<>>
      [] i = 2 -> f.building # <<>>
      [] i = 3 -> f.shop # <<>> \/ f.office # <<>>
      [] i = 4 -> f.leisure # <<>>
      [] i = 5 -> f.tourism # <<>>
      [] i = 6 -> f.landuse \in {S.residential, S.industrial, S.commercial, S.forest, S.park}
      [] i = 7 -> f.geom = "Point"
      [] i = 8 -> TRUE

\* ... and then decides this category
C9_RuleCategory(i, f) ==
    CASE i = 1 ->
            LET a == toLowerCase(f.amenity)
            IN  CASE a \in {S.school, S.university} -> "education"
                  [] a \in {S.hospital, S.clinic, S.doctors} -> "healthcare"
                  [] a = S.place_of_worship -> "religious"
                  [] OTHER -> "amenity"
      [] i = 2 ->
            LET b == toLowerCase(f.building)
            IN  CASE includes(b, S.resid) \/ b \in {S.house, S.apartments} -> "residential"
                  [] includes(b, S.commer) \/ includes(b, S.retail) \/ includes(b, S.shop)
                        -> "commercial"
                  [] includes(b, S.indust) -> "industrial"
                  [] includes(b, S.church) \/ includes(b, S.cathedral) -> "religious"
                  [] OTHER -> "building"
      [] i = 3 -> "commercial"
      [] i = 4 -> "leisure"
      [] i = 5 -> "tourism"
      [] i = 6 -> CASE f.landuse = S.residential -> "residential"
                    [] f.landuse = S.industrial -> "industrial"
                    [] f.landuse = S.commercial -> "commercial"
                    [] OTHER -> "leisure"
      [] i = 7 -> "point"
      [] i = 8 -> "unknown"

C9_FirstApplicable(f) ==
    CHOOSE i \in 1..8 : C9_RuleApplies(i, f) /\ \A j \in 1..(i - 1) : ~C9_RuleApplies(j, f)

\* C9: getFeatureType returns the category of the first applicable rule in the order
\* amenity, building, shop-or-office, leisure, tourism, landuse (one of its five
\* recognised values), Point geometry, unknown; the call leaves the feature as it
\* was, and classifying the same feature again gives the same category.
C9_FirstMatchWins ==
    /\ [](ret # <<>> => ret[1] = C9_RuleCategory(C9_FirstApplicable(arg), arg))
    /\ [][arg' = arg /\ (ret # <<>> => ret' = ret)]_vars

\* C9 witness: a feature with both amenity and building set has been classified by
\* its amenity
C9_Witness ==
    /\ ret = <<"education">>
    /\ arg.amenity = S.School
    /\ arg.building = S.house

---------------------------------------------------------------------------
(* The readable-area override, MapContainer.vue L.GeometryUtil.readableArea *)
(*                                                                         *)
(* `area` is a whole number of square metres.  `metric` is a boolean, a    *)
(* string or an array of strings: [typ, flag, text, list].  A number is    *)
(* kept as the exact fraction n * m / (d * k); the code computes in        *)
(* doubles.  The formatted number is kept as its digits and the number of  *)
(* decimals: 150 with 2 decimals is "1.50".  The units "km^2", "m^2",      *)
(* "mi^2", "yd^2" are the code's ' km²', ' m²', ' mi²', ' yd²'.            *)

PREC == [km |-> 2, ha |-> 2, m |-> 0, mi |-> 2, ac |-> 2, yd |-> 0, ft |-> 0, nm |-> 2]

Pow10(p) == IF p = 0 THEN 1 ELSE IF p = 1 THEN 10 ELSE 100

\* L.GeometryUtil.formattedNumber(x, precision) for x = n*m/(d*k): x rounded to
\* `precision` decimals, half up, as toFixed does
formattedNumber(x, precision) ==
    LET q == MulDivMod(2 * Pow10(precision) * x.n, x.m, x.d)[1]
    IN  [digits |-> (q + x.k) \div (2 * x.k), decimals |-> precision]

indexOf(units, u) ==
    IF \E i \in 1..Len(units) : units[i] = u
    THEN CHOOSE i \in 1..Len(units) : units[i] = u /\ \A j \in 1..(i - 1) : units[j] # u
    ELSE -1

\* `if (metric)`: false and the empty string are falsy, every array is truthy
MetricTruthy(metric) ==
    CASE metric.typ = "boolean" -> metric.flag
      [] metric.typ = "string" -> metric.text # ""
      [] metric.typ = "array" -> TRUE

Text(number, unit) == [digits |-> number.digits, decimals |-> number.decimals, unit |-> unit]

\* mutant: hectares are used from 1,000 m^2 on
metricArea_haFrom1000(area, units) ==
    IF area >= 1000000 /\ indexOf(units, "km") # -1
    THEN Text(formattedNumber([n |-> area, m |-> 1, d |-> 1000000, k |-> 1], PREC.km), "km^2")
    ELSE IF area >= 1000 /\ indexOf(units, "ha") # -1
    THEN Text(formattedNumber([n |-> area, m |-> 1, d |-> 10000, k |-> 1], PREC.ha), "ha")
    ELSE Text(formattedNumber([n |-> area, m |-> 1, d |-> 1, k |-> 1], PREC.m), "m^2")

\* the metric branch: area * 1e-6 km^2, area * 1e-4 ha, or area m^2
metricArea(area, units) ==
    IF area >= 1000000 /\ indexOf(units, "km") # -1
    THEN Text(formattedNumber([n |-> area, m |-> 1, d |-> 1000000, k |-> 1], PREC.km), "km^2")
    ELSE IF area >= 10000 /\ indexOf(units, "ha") # -1
    THEN Text(formattedNumber([n |-> area, m |-> 1, d |-> 10000, k |-> 1], PREC.ha), "ha")
    ELSE Text(formattedNumber([n |-> area, m |-> 1, d |-> 1, k |-> 1], PREC.m), "m^2")

\* the other branch: const a = area / 0.836127, that is area * 1000000 / 836127
\* square yards; a / 3097600 mi^2, a / 4840 acres, or a yd^2
imperialArea(area) ==
    LET a == MulDivMod(area, 1000000, 836127)[1]
    IN  IF a >= 3097600
        THEN Text(formattedNumber([n |-> area, m |-> 1000000, d |-> 836127, k |-> 3097600], PREC.mi), "mi^2")
        ELSE IF a >= 4840
        THEN Text(formattedNumber([n |-> area, m |-> 1000000, d |-> 836127, k |-> 4840], PREC.ac), "acres")
        ELSE Text(formattedNumber([n |-> area, m |-> 1000000, d |-> 836127, k |-> 1], PREC.yd), "yd^2")

readableArea(area, metric) ==
    IF MetricTruthy(metric)
    THEN LET units == IF metric.typ = "string" THEN <<metric.text>>
                      ELSE IF metric.typ = "boolean" THEN <<"ha", "m">>
                      ELSE metric.list
         IN  metricArea(area, units)
    ELSE imperialArea(area)

\* the areas and the metric arguments the override is tried on
Areas == {0, 50, 4047, 5000, 9999, 10000, 15000, 999999, 1000000, 1500000, 2600000}

Boolean(b) == [typ |-> "boolean", flag |-> b, text |-> "", list |-> <<>>]
String(t) == [typ |-> "string", flag |-> FALSE, text |-> t, list |-> <<>>]
Array(l) == [typ |-> "array", flag |-> FALSE, text |-> "", list |-> l]

MetricArgs ==
    {Boolean(TRUE), Boolean(FALSE), String("km"), String("ha"), String("m"), String(""),
     Array(<<"km", "ha", "m">>), Array(<<"km", "m">>), Array(<<>>)}

\* L.GeometryUtil.readableArea(area, metric) is called (by the drawing toolbar)
ReadableArea ==
    /\ ret = <<>>
    /\ ret' = <<readableArea(arg.area, arg.metric)>>
    /\ arg' = arg
    /\ UNCHANGED notPure

InitArea ==
    /\ arg \in [area : Areas, metric : MetricArgs]
    /\ ret = <<>>
    /\ TrackerIdle
    /\ Mounted

NextArea == ReadableArea

SpecArea == InitArea /\ [][NextArea]_vars

---------------------------------------------------------------------------
(* Claims about the readable-area override *)

C10_Allowed(metric, u) ==
    \/ metric.typ = "string" /\ metric.text = u
    \/ metric.typ = "boolean" /\ metric.flag /\ u \in {"ha", "m"}
    \/ metric.typ = "array" /\ \E i \in 1..Len(metric.list) : metric.list[i] = u

C10_MetricMode == ret # <<>> /\ MetricTruthy(arg.metric)

\* C10 as stated: in metric mode 1,500,000 m^2 reads "1.50 km^2", 5,000 m^2 reads
\* "0.50 ha" and 50 m^2 reads "50 m^2".
C10_AsStated ==
    C10_MetricMode =>
        /\ arg.area = 1500000 => ret[1] = [digits |-> 150, decimals |-> 2, unit |-> "km^2"]
        /\ arg.area = 5000 => ret[1] = [digits |-> 50, decimals |-> 2, unit |-> "ha"]
        /\ arg.area = 50 => ret[1] = [digits |-> 50, decimals |-> 0, unit |-> "m^2"]

\* C10 as amended: in metric mode 1,500,000 m^2 reads "1.50 km^2" when km is an allowed
\* unit, and "150.00 ha" when it is not but ha is (metric = true allows ha and m only);
\* 5,000 m^2 is below the 10,000 m^2 needed for hectares and reads "5000 m^2";
\* 50 m^2 reads "50 m^2".
C10_Thresholds ==
    C10_MetricMode =>
        /\ (arg.area = 1500000 /\ C10_Allowed(arg.metric, "km")) =>
                ret[1] = [digits |-> 150, decimals |-> 2, unit |-> "km^2"]
        /\ (arg.area = 1500000 /\ ~C10_Allowed(arg.metric, "km")
                                /\ C10_Allowed(arg.metric, "ha")) =>
                ret[1] = [digits |-> 15000, decimals |-> 2, unit |-> "ha"]
        /\ arg.area = 5000 => ret[1] = [digits |-> 5000, decimals |-> 0, unit |-> "m^2"]
        /\ arg.area = 50 => ret[1] = [digits |-> 50, decimals |-> 0, unit |-> "m^2"]

\* C10 witness: 5,000 m^2 has been formatted with metric = true
C10_Witness ==
    /\ ret # <<>>
    /\ arg = [area |-> 5000, metric |-> Boolean(TRUE)]

---------------------------------------------------------------------------
(* The Map Orchestrator (MapContainer.vue).  An invocation of one of its   *)
(* async functions occupies a slot of `flows`; its pc names the await it   *)
(* is suspended at.  A run of the invocation works on a context: the       *)
(* slot's record fl, the tracker sp, the helper object pv, the view vw and *)
(* the effects eff of the run so far.  Where a confirm is asked, the run   *)
(* has one possible result per answer.                                     *)

Ctx(f) == [fl |-> flows[f], sp |-> spinner, pv |-> provided, vw |-> view, eff |-> {}, map |-> onMap]

\* the run ends (at an await or a return): its context becomes the state
Commit(f, op, st) ==
    /\ flows' = [flows EXCEPT ![f] = st.fl]
    /\ spinner' = st.sp
    /\ provided' = st.pv
    /\ view' = st.vw
    /\ effects' = st.eff
    /\ lastCall' = [op |-> op, args |-> <<f>>]
    /\ onMap' = st.map
    /\ UNCHANGED <<callers, arg, ret, selected, page, locate, aiVisible, chat>>

\* a new invocation in a slot
Invoke(f, kind) == [Ctx(f) EXCEPT !.fl = [IdleFlow EXCEPT !.kind = kind]]

\* a slot is free when nothing runs in it; a new invocation takes the first free slot
Free(f) ==
    /\ flows[f].pc \in {"idle", "done"}
    /\ \A g \in 1..(f - 1) : flows[g].pc \notin {"idle", "done"}

\* spinner.show() / spinner.hide() called by the invocation
FlowShow(st) == [st EXCEPT !.sp = show(@, <<>>), !.fl.shows = @ + 1]
FlowHide(st) == [st EXCEPT !.sp = hide(@), !.fl.hides = @ + 1]

\* alert(...), a download, a console message
Emit(st, e) == [st EXCEPT !.eff = @ \cup {e}]

\* window.confirm(...) is asked
Confirm(st, q) == [st EXCEPT !.eff = @ \cup {q}, !.fl.prompted = TRUE]

\* fetch(...) is called and awaited
Fetch(st, r, pc) == [st EXCEPT !.eff = @ \cup {r}, !.fl.requested = TRUE, !.fl.pc = pc]

Post_fileAsRead(st, r, pc) == [Fetch(st, r, pc) EXCEPT !.fl.sent = <<st.fl.file.doc>>]

\* fetch(..., { method: 'POST', body: JSON.stringify(processed) }) of the upload: the
\* working document is sent
Post(st, r, pc) == [Fetch(st, r, pc) EXCEPT !.fl.sent = <<st.fl.processed>>]

\* the invocation returns: its locals are gone, what it did to the tracker stays on record
Done(st) ==
    [st EXCEPT !.fl = [IdleFlow EXCEPT !.pc = "done", !.shows = st.fl.shows, !.hides = st.fl.hides]]

\* L.geoJSON(doc, ...): the features the layer is built from
geoJSON(doc) ==
    IF doc.type = "FeatureCollection" THEN doc.features
    ELSE IF doc.type = "Feature" THEN doc.own
    ELSE <<>>

removeLayer_kept(st, layer) == [st EXCEPT !.pv[layer] = <<>>]

\* if (provided[layer]) { map.value.removeLayer(provided[layer]); provided[layer] = null }
removeLayer(st, layer) ==
    IF st.pv[layer] = <<>> THEN st
    ELSE [st EXCEPT !.map[layer] = FALSE, !.pv[layer] = <<>>]

\* provided[layer] = L.geoJSON(features, ...).addTo(map.value); a layer the field still
\* referred to and the map still held stays on the map with nothing referring to it
addTo(st, layer, features) ==
    [st EXCEPT !.pv[layer] = <<features>>,
               !.map[layer] = TRUE,
               !.map.others = IF st.map[layer] THEN Append(@, layer) ELSE @]

\* try { map.value.fitBounds(layer.getBounds()) } catch (e) {}: the bounds of a layer
\* without shapes are not valid, fitBounds throws and the view stays
fitBounds(vw, shapes) == IF Len(shapes) = 0 THEN vw ELSE "layer"

\* how a request can end: rejected (network), a non-ok response, an ok response
\* without a geojson field, an ok response with one
Replies == {"error", "fail", "no_geojson", "geojson"}

\* the documents the backend stages answer with
HousePolygon == Feature(<<>>, S.house, <<>>, "Polygon")
AIPolygon == [Feature(<<>>, <<>>, S.residential, "Polygon") EXCEPT !.ai_script = S.yes]
ProcessDocument == Document("FeatureCollection", <<HousePolygon>>, <<>>)
EnrichedDocument == Document("FeatureCollection", <<HousePolygon, AIPolygon>>, <<>>)

---------------------------------------------------------------------------
(* Search: MapToolbar.onSearch -> provided.handleSearch *)


\* what the toolbar's search field can hold
Queries == {<<>>, S.blank, S.Wien}

\* what the geocoder answers: a failed request, an empty list, a first hit
SearchReplies == {"error", "empty", "place"}

\* click on Suchen / Enter: onSearch and handleSearch up to `await fetch`
handleSearch(f) ==
    /\ Free(f)
    /\ \E q \in Queries :
          IF Truthy(q)
          THEN Commit(f, "handleSearch",
                   Fetch(FlowShow([Invoke(f, "search") EXCEPT !.fl.query = q]),
                         "fetch_nominatim", "search"))
          ELSE Commit(f, "onSearch", Ctx(f))

\* the geocoder's answer arrives: the rest of handleSearch
handleSearchResumes(f) ==
    /\ flows[f].pc = "search"
    /\ \E reply \in SearchReplies :
          LET st == Ctx(f)
              after == IF reply = "error" THEN Emit(st, "console_error")
                       ELSE IF reply = "empty" THEN Emit(st, "alert_not_found")
                       ELSE [st EXCEPT !.pv._searchMarker = reply, !.vw = reply]
          IN  Commit(f, "handleSearchResumes", Done(FlowHide(after)))

---------------------------------------------------------------------------
(* Upload: MapToolbar.onUpload -> provided.handleUpload *)

SchoolPoint == Feature(S.school, <<>>, <<>>, "Point")

\* the files offered to the upload: not JSON, the JSON null, a FeatureCollection,
\* a bare geometry, an object without a type
UploadFiles ==
    { File("error", NoDocument), File("null", NoDocument),
      File("object", Document("FeatureCollection", <<SchoolPoint>>, <<>>)),
      File("object", Document("Point", <<>>, <<>>)),
      File("object", NoDocument) }

\* no file was chosen
NoFile == File("absent", NoDocument)

\* the uploaded features are marked with _uploaded_from_file
markUploaded(doc) ==
    IF doc.type = "FeatureCollection"
    THEN [doc EXCEPT !.features =
             [i \in 1..Len(doc.features) |-> [doc.features[i] EXCEPT !.uploaded = TRUE]]]
    ELSE IF doc.type = "Feature"
    THEN [doc EXCEPT !.own = [i \in 1..Len(doc.own) |-> [doc.own[i] EXCEPT !.uploaded = TRUE]]]
    ELSE doc

UnsupportedType_never(geojson) == FALSE

\* !geojson.type || (geojson.type !== 'FeatureCollection' && geojson.type !== 'Feature')
UnsupportedType(geojson) ==
    geojson.type = "" \/ (geojson.type # "FeatureCollection" /\ geojson.type # "Feature")

\* finally { spinner.hide() } of handleUpload
UploadFinally(st) == FlowHide(st)

\* catch (err) { alert('Fehler beim Verarbeiten der Datei: ' + err.message) } finally
\* { spinner.hide() }
UploadFails(st, err) == Done(UploadFinally(Emit(st, err)))

GeminiFinally_noHide(st) == st

\* finally { spinner.hide() } of the Gemini stage
GeminiFinally(st) == FlowHide(st)

\* the old layer is removed, the working document becomes the last document and
\* is rendered, the view is fitted to it
renderUpload(st) ==
    LET stored == [removeLayer(st, "_geoJsonLayer") EXCEPT !.pv._lastGeoJSON = <<st.fl.processed>>]
    IN  [addTo(stored, "_geoJsonLayer", geoJSON(st.fl.processed))
            EXCEPT !.vw = fitBounds(@, geoJSON(st.fl.processed))]

\* the final 'save to database?' prompt, unless already uploaded after place_enrich
FinalSave(st) ==
    IF st.fl.uploadedFromPlaceEnrich
    THEN {Done(UploadFinally(st))}
    ELSE LET asked == Confirm(st, "confirm_save")
         IN  {Post(asked, "fetch_save", "final_save"), Done(UploadFinally(asked))}

RenderAndSave(st) == FinalSave(renderUpload(st))

\* the unconditional _edited download that ends the processed branch
AfterPlace(st) == RenderAndSave(Emit(st, "download_edited"))

\* 'GeoJSON mit dem Python-Skript ueberarbeiten?'
ProcessStage(st) ==
    LET asked == Confirm([st EXCEPT !.fl.uploadedFromPlaceEnrich = FALSE], "confirm_process")
    IN  {Post(asked, "fetch_process", "process")} \cup RenderAndSave(asked)

\* 'Do you want to enrich the GeoJSON with AI (Gemini)?'
GeminiStage(st) ==
    LET asked == Confirm(st, "confirm_gemini")
    IN  {Post(FlowShow(asked), "fetch_gemini", "gemini")} \cup ProcessStage(asked)

\* a file is chosen: onUpload and handleUpload up to `await file.text()`
handleUpload(f) ==
    /\ Free(f)
    /\ \E file \in UploadFiles \cup {NoFile} :
          IF file = NoFile
          THEN Commit(f, "onUpload", Ctx(f))
          ELSE Commit(f, "handleUpload",
                   [FlowShow([Invoke(f, "upload") EXCEPT !.fl.file = file])
                       EXCEPT !.fl.pc = "upload_text"])

\* the file's text arrives: parse, mark, validate, ask for the optional stages
handleUploadText(f) ==
    /\ flows[f].pc = "upload_text"
    /\ LET st == Ctx(f)
           file == flows[f].file
           geojson == markUploaded(file.doc)
           results == IF file.parse = "error" THEN {UploadFails(st, "alert_SyntaxError")}
                      ELSE IF file.parse = "null" THEN {UploadFails(st, "alert_TypeError")}
                      ELSE IF UnsupportedType(geojson) THEN {UploadFails(st, "alert_InvalidInput")}
                      ELSE GeminiStage([st EXCEPT !.fl.processed = geojson])
       IN  \E next \in results : Commit(f, "handleUploadText", next)

\* the Gemini request ends
handleUploadGemini(f) ==
    /\ flows[f].pc = "gemini"
    /\ \E reply \in Replies :
          LET st == Ctx(f)
              enriched == Emit([st EXCEPT !.fl.processed = EnrichedDocument], "alert_gemini_enriched")
              asked == Confirm(enriched, "confirm_gemini_download")
              handled == IF reply = "geojson" THEN {Emit(asked, "download_gemini_enriched"), asked}
                         ELSE IF reply = "no_geojson" THEN {Emit(st, "alert_gemini_no_geojson")}
                         ELSE {Emit(st, "alert_gemini_failed")}
          IN  \E h \in handled : \E next \in ProcessStage(GeminiFinally(h)) :
                 Commit(f, "handleUploadGemini", next)

\* the process request ends
handleUploadProcess(f) ==
    /\ flows[f].pc = "process"
    /\ \E reply \in Replies :
          LET st == Ctx(f)
              next == IF reply \in {"error", "fail"} THEN UploadFails(st, "alert_ProcessError")
                      ELSE Post(IF reply = "geojson"
                                 THEN [st EXCEPT !.fl.processed = ProcessDocument] ELSE st,
                                 "fetch_hull", "hull")
          IN  Commit(f, "handleUploadProcess", next)

\* the dominant_type_hull request ends
handleUploadHull(f) ==
    /\ flows[f].pc = "hull"
    /\ \E reply \in Replies :
          LET st == Ctx(f)
              next == Post(IF reply = "geojson"
                            THEN [st EXCEPT !.fl.processed = EnrichedDocument] ELSE st,
                            "fetch_place", "place")
          IN  Commit(f, "handleUploadHull", next)

\* the place_enrich request ends
handleUploadPlace(f) ==
    /\ flows[f].pc = "place"
    /\ \E reply \in Replies :
          LET st == Ctx(f)
              enriched == Confirm([st EXCEPT !.fl.processed = EnrichedDocument], "confirm_place_download")
              offered == {Emit(enriched, "download_place_enriched"), enriched}
              results == IF reply = "geojson"
                         THEN UNION { {Post(Confirm(o, "confirm_upload_now"), "fetch_save", "save_enriched")}
                                      \cup AfterPlace(Confirm(o, "confirm_upload_now")) : o \in offered }
                         ELSE AfterPlace(st)
          IN  \E next \in results : Commit(f, "handleUploadPlace", next)

\* how saveGeoJSONToDB's request ends; it reports a failure itself and never throws
SaveReplies == {"ok", "fail"}

\* saveGeoJSONToDB(enriched) returns
handleUploadSaveEnriched(f) ==
    /\ flows[f].pc = "save_enriched"
    /\ \E reply \in SaveReplies :
          LET st == Ctx(f)
              saved == IF reply = "fail" THEN Emit(st, "alert_save_failed") ELSE st
              uploaded == Emit([saved EXCEPT !.fl.uploadedFromPlaceEnrich = TRUE], "alert_uploaded")
          IN  \E next \in AfterPlace(uploaded) : Commit(f, "handleUploadSaveEnriched", next)

\* saveGeoJSONToDB(processed) returns
handleUploadFinalSave(f) ==
    /\ flows[f].pc = "final_save"
    /\ \E reply \in SaveReplies :
          LET st == Ctx(f)
              saved == IF reply = "fail" THEN Emit(st, "alert_save_failed") ELSE st
          IN  Commit(f, "handleUploadFinalSave",
                     Done(UploadFinally(Emit(saved, "alert_sent"))))

---------------------------------------------------------------------------
(* Area export: provided.exportGeoJSON, called when a shape has been drawn *)

\* how the geodata service's request ends
ExportReplies == {"error", "data"}

\* exportGeoJSON(layer_geojson) up to `await fetch`
exportGeoJSON(f) ==
    /\ Free(f)
    /\ Commit(f, "exportGeoJSON", Fetch(FlowShow(Invoke(f, "export")), "fetch_overpass", "export"))

\* the geodata service's answer arrives: the rest of exportGeoJSON
exportGeoJSONResumes(f) ==
    /\ flows[f].pc = "export"
    /\ \E reply \in ExportReplies :
          LET st == Ctx(f)
              next == IF reply = "error" THEN Done(FlowHide(Emit(st, "alert_osm_failed")))
                      ELSE Done(FlowHide(Emit(st, "return_collection")))
          IN  Commit(f, "exportGeoJSONResumes", next)

---------------------------------------------------------------------------
(* Prompt: provided.sendPrompt *)

Prompts == {<<>>, S.Wien}

\* the AI's answer: a failed request, text without GeoJSON, text that parses to GeoJSON
PromptReplies == {"error", "text", "geojson"}

\* a feature is drawn by showProcessedGeoJSON unless it is a point (pointToLayer
\* returns null)
Drawn(features) ==
    LET shape(x) == x.geom # "Point"
    IN  SelectSeq(features, shape)

showProcessedGeoJSON_keepsUpload(st, geojson) ==
    IF geojson.type = "" THEN st
    ELSE LET isAI(x) == Truthy(x.ai_script)
             isNormal(x) == ~Truthy(x.ai_script)
             stored == [removeLayer(st, "_geoJsonLayer") EXCEPT !.pv._lastGeoJSON = <<geojson>>]
             normal == addTo(removeLayer(stored, "_aiLayer"), "_geoJsonLayer",
                             SelectSeq(geojson.features, isNormal))
         IN  IF Len(SelectSeq(geojson.features, isAI)) > 0
             THEN addTo(normal, "_aiLayer", SelectSeq(geojson.features, isAI))
             ELSE normal

\* showProcessedGeoJSON(geojson)
showProcessedGeoJSON(st, geojson) ==
    IF geojson.type = "" THEN st
    ELSE LET allFeatures == geojson.features
             isAI(x) == Truthy(x.ai_script)
             isNormal(x) == ~Truthy(x.ai_script) /\ ~x.uploaded
             aiFeatures == SelectSeq(allFeatures, isAI)
             normalFeatures == SelectSeq(allFeatures, isNormal)
             stored == [removeLayer(st, "_geoJsonLayer") EXCEPT !.pv._lastGeoJSON = <<geojson>>]
             removed == removeLayer(removeLayer(stored, "_geoJsonLayer"), "_aiLayer")
             normal == addTo(removed, "_geoJsonLayer", normalFeatures)
             both == IF Len(aiFeatures) > 0 THEN addTo(normal, "_aiLayer", aiFeatures) ELSE normal
         IN  [both EXCEPT !.vw = fitBounds(@, Drawn(normalFeatures))]

\* sendPromptToAI(promptText, payloadGeoJSON) is awaited
sendPromptToAI(st) == Fetch(st, "fetch_prompt", "prompt")

\* sendPrompt(promptText) up to `await sendPromptToAI`
sendPrompt(f) ==
    /\ Free(f)
    /\ \E promptText \in Prompts :
          IF Truthy(promptText)
          THEN Commit(f, "sendPrompt",
                   sendPromptToAI(FlowShow([Invoke(f, "prompt") EXCEPT !.fl.query = promptText])))
          ELSE Commit(f, "sendPrompt", Ctx(f))

\* the AI's answer arrives: the rest of sendPrompt
sendPromptResumes(f) ==
    /\ flows[f].pc = "prompt"
    /\ \E reply \in PromptReplies :
          LET st == Ctx(f)
              parsed == EnrichedDocument
              stored == Confirm([st EXCEPT !.pv._lastGeoJSON = <<parsed>>], "confirm_show")
              shown == {showProcessedGeoJSON(stored, parsed), stored}
              offered == UNION { {Emit(Confirm(s, "confirm_download"), "download_ai_prompt_enriched"),
                                  Confirm(s, "confirm_download")} : s \in shown }
              results == IF reply = "error"
                         THEN {Done(FlowHide(Emit(st, "alert_prompt_failed")))}
                         ELSE IF reply = "text"
                         THEN {Done(FlowHide(Emit(st, "alert_prompt_sent")))}
                         ELSE {Done(FlowHide(Emit(o, "alert_prompt_sent"))) : o \in offered}
          IN  \E next \in results : Commit(f, "sendPromptResumes", next)

---------------------------------------------------------------------------
(* The orchestrator with its flows in any interleaving *)

InitOrchestrator ==
    /\ TrackerIdle
    /\ PureIdle
    /\ Mounted

NextOrchestrator ==
    \/ \E f \in 1..NumFlows :
          \/ handleSearch(f)
          \/ handleSearchResumes(f)
          \/ handleUpload(f)
          \/ handleUploadText(f)
          \/ handleUploadGemini(f)
          \/ handleUploadProcess(f)
          \/ handleUploadHull(f)
          \/ handleUploadPlace(f)
          \/ handleUploadSaveEnriched(f)
          \/ handleUploadFinalSave(f)
          \/ exportGeoJSON(f)
          \/ exportGeoJSONResumes(f)
          \/ sendPrompt(f)
          \/ sendPromptResumes(f)
    \/ AutoHideFires

SpecOrchestrator == InitOrchestrator /\ [][NextOrchestrator]_vars

---------------------------------------------------------------------------
(* The legend (ColorLegend.vue) and the filter it drives (applyLegendFilter) *)

\* applyLegendFilter(selectedCategories): the layer is rebuilt from the last document's
\* `features`, keeping the features whose type is selected
applyLegendFilter(st, selectedCategories) ==
    IF st.pv._lastGeoJSON = <<>> THEN st
    ELSE LET keep(x) ==
                 LET t == getFeatureType(x)
                 IN  t \in selectedCategories \/ (t = "unknown" /\ "unknown" \in selectedCategories)
             filtered == SelectSeq(st.pv._lastGeoJSON[1].features, keep)
         IN  [addTo(removeLayer(st, "_geoJsonLayer"), "_geoJsonLayer", filtered)
                 EXCEPT !.vw = fitBounds(@, filtered)]

\* emitSelection(): the checked categories, as the checkboxes now are, go to
\* onSelectionChange, which applies the filter
emitSelection ==
    LET arr == {k \in Categories : selected'[k]}
        r == applyLegendFilter(Ctx(1), arr)
    IN  /\ provided' = r.pv
        /\ view' = r.vw
        /\ onMap' = r.map
        /\ effects' = {}
        /\ UNCHANGED <<spinner, callers, arg, ret, flows, page, locate, aiVisible, chat>>

\* a category's checkbox is clicked
onChange(k) ==
    /\ selected' = [selected EXCEPT ![k] = ~@]
    /\ lastCall' = [op |-> "onChange", args |-> <<>>]
    /\ emitSelection

\* the Alle button
selectAll ==
    /\ selected' = [k \in Categories |-> TRUE]
    /\ lastCall' = [op |-> "selectAll", args |-> <<>>]
    /\ emitSelection

\* the Keine button
clearAll ==
    /\ selected' = [k \in Categories |-> FALSE]
    /\ lastCall' = [op |-> "clearAll", args |-> <<>>]
    /\ emitSelection

\* the features of the documents the legend is tried on, one per classification the
\* classifier tells apart here: education, amenity, building, point, unknown, residential
CafePoint == Feature(S.cafe, <<>>, <<>>, "Point")
YesBuilding == Feature(<<>>, S.yes, <<>>, "Polygon")
BarePoint == Feature(<<>>, <<>>, <<>>, "Point")
BarePolygon == Feature(<<>>, <<>>, <<>>, "Polygon")
ResidentialArea == Feature(<<>>, <<>>, S.residential, "Polygon")

LegendFeatures == {SchoolPoint, CafePoint, YesBuilding, BarePoint, BarePolygon, ResidentialArea}

LegendDocuments ==
    {Document("FeatureCollection", l, <<>>) :
        l \in UNION {[1..n -> LegendFeatures] : n \in 0..MaxFeatures}}
    \cup {Document("Feature", <<>>, <<x>>) : x \in LegendFeatures}

\* the map after a document was uploaded with every optional stage declined: marked,
\* stored as the last document and rendered unfiltered; or the map as mounted
InitLegend ==
    /\ TrackerIdle
    /\ PureIdle
    /\ selected = [k \in Categories |-> TRUE]
    /\ flows = [f \in 1..NumFlows |-> IdleFlow]
    /\ effects = {}
    /\ page = Unloaded(<<>>, FALSE, TRUE)
    /\ locate = NotLocating
    /\ aiVisible = TRUE
    /\ chat = MountedChat
    /\ \/ provided = MountedProvided /\ view = "start" /\ onMap = MountedMap
       \/ \E doc \in LegendDocuments :
             LET st == renderUpload([fl |-> [IdleFlow EXCEPT !.processed = markUploaded(doc)],
                                     sp |-> spinner, pv |-> MountedProvided,
                                     vw |-> "start", eff |-> {}, map |-> MountedMap])
             IN  provided = st.pv /\ view = st.vw /\ onMap = st.map

NextLegend ==
    \/ \E k \in Categories : onChange(k)
    \/ selectAll
    \/ clearAll

SpecLegend == InitLegend /\ [][NextLegend]_vars

\* C8: legend filtering over the shared last document (here: a FeatureCollection): with
\* every category selected the filter returns as many features as the document has;
\* with none selected it returns none; with a strict subset selected it returns exactly
\* the features whose classification (getFeatureType) is in the subset, unknown ones
\* iff unknown is selected.
C8_AsStated ==
    ( /\ lastCall.op \in {"onChange", "selectAll", "clearAll"}
      /\ provided._lastGeoJSON # <<>>
      /\ provided._lastGeoJSON[1].type = "FeatureCollection" ) =>
        LET original == provided._lastGeoJSON[1].features
            subset == {k \in Categories : selected[k]}
            returned == provided._geoJsonLayer[1]
            classified(x) == getFeatureType(x) \in subset
        IN  /\ subset = Categories => Len(returned) = Len(original)
            /\ subset = {} => Len(returned) = 0
            /\ subset # Categories => returned = SelectSeq(original, classified)

---------------------------------------------------------------------------
(* Claims about the orchestrator's flows *)

\* C5: every orchestrator flow that shows the spinner (search, upload with its
\* nested Gemini stage, area export, prompt) has called hide() once per show()
\* when it returns, on every exit path, so when no started flow is still in
\* flight the count is 0 and the spinner is hidden.
C5_HidesBalanceShows ==
    /\ \A f \in 1..NumFlows :
          /\ flows[f].hides <= flows[f].shows
          /\ flows[f].pc = "done" => flows[f].shows >= 1 /\ flows[f].hides = flows[f].shows
    /\ (\A f \in 1..NumFlows : flows[f].pc \in {"idle", "done"})
          => spinner.count = 0 /\ ~spinner.isVisible

\* an upload that ran the Gemini stage (two show() calls) has just ended in its catch
\* block because the process request failed, and the other flow has returned too
C5_Witness ==
    /\ lastCall.op = "handleUploadProcess"
    /\ "alert_ProcessError" \in effects
    /\ flows[lastCall.args[1]].shows = 2
    /\ \A f \in 1..NumFlows : flows[f].pc = "done"

\* String.prototype.trim, for the queries of the model
RECURSIVE Trim(_)
Trim(s) ==
    IF s = <<>> THEN s
    ELSE IF Head(s) = " " THEN Trim(Tail(s))
    ELSE IF s[Len(s)] = " " THEN Trim(SubSeq(s, 1, Len(s) - 1))
    ELSE s

\* a run of a search whose query is empty after trimming
C6_BlankSearchRuns(f) ==
    /\ flows'[f] # flows[f]
    /\ \/ flows[f].kind = "search" /\ Trim(flows[f].query) = <<>>
       \/ flows'[f].kind = "search" /\ Trim(flows'[f].query) = <<>>

\* C6: a search with an empty or whitespace-only query (toolbar onSearch, then
\* handleSearch) sends no request and leaves the map view and the search marker
\* as they were.
C6_AsStated ==
    [][ /\ lastCall'.op = "onSearch" =>
              effects' = {} /\ view' = view /\ provided' = provided /\ spinner' = spinner
        /\ \A f \in 1..NumFlows :
              C6_BlankSearchRuns(f) =>
                 /\ "fetch_nominatim" \notin effects'
                 /\ ~flows'[f].requested
                 /\ view' = view
                 /\ provided'._searchMarker = provided._searchMarker ]_vars

\* the file being read parsed to an object whose type is neither Feature nor
\* FeatureCollection, and the upload's slot changes in this step
C7_InvalidTypeRead(f) ==
    /\ flows[f].pc = "upload_text"
    /\ flows[f].file.parse = "object"
    /\ flows[f].file.doc.type \notin {"Feature", "FeatureCollection"}
    /\ flows'[f] # flows[f]

\* what such an upload does, the tracker's visibility apart
C7_Aborts(f) ==
    /\ flows'[f].pc = "done"
    /\ effects' = {"alert_InvalidInput"}
    /\ ~flows[f].prompted /\ ~flows[f].requested
    /\ provided' = provided
    /\ view' = view
    /\ flows'[f].shows = 1 /\ flows'[f].hides = 1
    /\ spinner'.count = Max(0, spinner.count - 1)

\* C7 as stated: an upload whose parsed JSON has a top-level type that is neither
\* Feature nor FeatureCollection fails with InvalidInput before any confirm or
\* request, leaves the rendered layer and the last document alone, and ends with
\* the spinner hidden.
C7_AsStated ==
    [][\A f \in 1..NumFlows :
          C7_InvalidTypeRead(f) => C7_Aborts(f) /\ ~spinner'.isVisible]_vars

\* C7, amended: such an upload fails with InvalidInput before any confirm or request,
\* leaves the rendered layer and the last document alone and undoes its one show()
\* by one hide(); the spinner is hidden at that point when no other flow is in flight.
C7_InvalidTypeAborts ==
    [][\A f \in 1..NumFlows :
          C7_InvalidTypeRead(f) =>
             /\ C7_Aborts(f)
             /\ (\A g \in 1..NumFlows \ {f} : flows[g].pc \in {"idle", "done"})
                   => ~spinner'.isVisible]_vars

\* an upload has just been refused for its type while a search is still waiting for
\* the geocoder, with the spinner showing
C7_Witness ==
    /\ lastCall.op = "handleUploadText"
    /\ effects = {"alert_InvalidInput"}
    /\ flows[lastCall.args[1]].pc = "done"
    /\ \E g \in 1..NumFlows : flows[g].pc = "search"
    /\ spinner.isVisible

---------------------------------------------------------------------------
(* Claims about the spinner visibility tracker *)

\* C1: after any sequence of show(), show(timeoutMs), hide(), reset() and timer
\* expiries the count is never negative and isVisible is true iff count > 0.
C1_CountVisible ==
    /\ spinner.count >= 0
    /\ spinner.isVisible <=> (spinner.count > 0)

\* C1 witness: hide() was called on a tracker shown several times
C1_Witness ==
    /\ lastCall.op = "hide"
    /\ spinner.count >= 2
    /\ spinner.isVisible

\* C2: with callers that show() once and hide() once, and neither reset() nor a
\* timer expiry, the spinner is visible whenever some caller has shown and not yet
\* hidden, and it goes from visible to hidden only in the step in which the last
\* such caller calls hide().
C2_NoPrematureHide ==
    [][ /\ (\E c \in 1..NumCallers : callers'[c] = "shown") => spinner'.isVisible
        /\ (spinner.isVisible /\ ~spinner'.isVisible) =>
              /\ \E c \in 1..NumCallers : callers[c] = "shown" /\ callers'[c] = "hidden"
              /\ \A d \in 1..NumCallers : callers'[d] # "shown" ]_vars

\* C2 witness: one caller has already hidden while another still needs the spinner
C2_Witness ==
    /\ \E c, d \in 1..NumCallers : callers[c] = "hidden" /\ callers[d] = "shown"
    /\ spinner.count = 1
    /\ spinner.isVisible

\* C3: show(n) replaces any pending fallback timer by one of exactly n ms (none when
\* n is 0); show() replaces it by the default timer, 60000 ms on a tracker built
\* with the default option; so at most one fallback timer is pending; and when it
\* expires the count is 0 and the spinner hidden.
C3_FallbackTimer ==
    /\ Cardinality(spinner.pending) <= 1
    /\ (lastCall.op = "show" /\ Len(lastCall.args) = 1 /\ lastCall.args[1] > 0) =>
            spinner.pending = {[id |-> spinner.timeout, ms |-> lastCall.args[1]]}
    /\ (lastCall.op = "show" /\ Len(lastCall.args) = 1 /\ lastCall.args[1] = 0) =>
            spinner.pending = {}
    /\ (lastCall.op = "show" /\ Len(lastCall.args) = 0 /\ spinner.autoHideMs = 60000) =>
            spinner.pending = {[id |-> spinner.timeout, ms |-> 60000]}
    /\ lastCall.op = "autoHide" =>
            spinner.count = 0 /\ ~spinner.isVisible /\ spinner.pending = {}

\* C3 witness: show(250) was called while the count was already positive, so a
\* timer armed by an earlier show had to be replaced
C3_Witness ==
    /\ lastCall = [op |-> "show", args |-> <<250>>]
    /\ spinner.count >= 2
    /\ spinner.timeout # NoTimer

\* C4: hide() decrements the count floored at 0 and clears the timer once the count
\* is 0, reset() sets the count to 0 and clears the timer; so a pending fallback
\* timer implies count > 0.
C4_TimerImpliesShown ==
    /\ [] /\ spinner.pending # {} => spinner.count > 0
          /\ lastCall.op = "reset" => spinner.count = 0 /\ ~spinner.isVisible
          /\ (lastCall.op \in {"hide", "reset"} /\ spinner.count = 0) =>
                  spinner.pending = {} /\ spinner.timeout = NoTimer
    /\ [][ CallHide =>
              spinner'.count = (IF spinner.count = 0 THEN 0 ELSE spinner.count - 1) ]_vars

\* C4 witness: hide() brought the count to 0 on a tracker whose timer had been armed
C4_Witness ==
    /\ lastCall.op = "hide"
    /\ spinner.count = 0
    /\ spinner.autoHideMs > 0

---------------------------------------------------------------------------
(* Area export: the filter exportGeoJSON applies to the features the       *)
(* geodata service returned (clipping to the drawn shape, de-duplication). *)
(* Coordinates are points of a small grid; the drawn shape and the areas   *)
(* of the service are axis-parallel rectangles, given by two corners.      *)

\* a feature of osmtogeojson(data): its own id, properties.id, properties['@id']
\* ("" when absent), the rest of its properties, its geometry
ExportFeature(id, pid, atid, name, geom, coords) ==
    [id |-> id, pid |-> pid, atid |-> atid, name |-> name, geom |-> geom, coords |-> coords]

\* the drawn shape (layer_geojson)
DrawnLayer == <<<<1, 1>>, <<3, 3>>>>

\* booleanPointInPolygon(p, rectangle, {ignoreBoundary})
PointInPolygon(p, r, ignoreBoundary) ==
    IF ignoreBoundary
    THEN r[1][1] < p[1] /\ p[1] < r[2][1] /\ r[1][2] < p[2] /\ p[2] < r[2][2]
    ELSE r[1][1] <= p[1] /\ p[1] <= r[2][1] /\ r[1][2] <= p[2] /\ p[2] <= r[2][2]

booleanWithin_always(f, layer) == TRUE

\* booleanWithin(f, layer_geojson): a point is within when it is inside and not on
\* the boundary; several points (a MultiPoint, an area's corners) are within when
\* none is outside and, for a MultiPoint, at least one is not on the boundary
booleanWithin(f, layer) ==
    IF f.geom = "Point" THEN PointInPolygon(f.coords[1], layer, TRUE)
    ELSE IF f.geom = "MultiPoint"
    THEN /\ \A i \in 1..Len(f.coords) : PointInPolygon(f.coords[i], layer, FALSE)
         /\ \E i \in 1..Len(f.coords) : PointInPolygon(f.coords[i], layer, TRUE)
    ELSE \A i \in 1..Len(f.coords) : PointInPolygon(f.coords[i], layer, FALSE)

\* turfIntersect(f, layer_geojson): the common area as a new feature without id and
\* properties, or null (<<>>) when the two share no area
turfIntersect(f, layer) ==
    LET Min(a, b) == IF a <= b THEN a ELSE b
        lo == <<Max(f.coords[1][1], layer[1][1]), Max(f.coords[1][2], layer[1][2])>>
        hi == <<Min(f.coords[2][1], layer[2][1]), Min(f.coords[2][2], layer[2][2])>>
    IN  IF lo[1] < hi[1] /\ lo[2] < hi[2]
        THEN <<ExportFeature("", "", "", "", "Polygon", <<lo, hi>>)>>
        ELSE <<>>

derivedId_none(f) == ""

\* f.id || (f.properties && (f.properties.id || f.properties['@id']))
derivedId(f) ==
    IF f.id # "" THEN f.id ELSE IF f.pid # "" THEN f.pid ELSE f.atid

\* the clipped feature of f (<<>> for null): points are kept when within; other
\* geometries are intersected, keeping f's properties, and fall back to `within`
\* when there is no intersection or intersect throws
clipFeature(f, layer, intersectThrows) ==
    IF f.geom = "Point" \/ f.geom = "MultiPoint"
    THEN IF booleanWithin(f, layer) THEN <<f>> ELSE <<>>
    ELSE IF intersectThrows
    THEN IF booleanWithin(f, layer) THEN <<f>> ELSE <<>>
    ELSE LET inter == turfIntersect(f, layer)
         IN  IF inter # <<>>
             THEN <<[inter[1] EXCEPT !.pid = f.pid, !.atid = f.atid, !.name = f.name]>>
             ELSE IF booleanWithin(f, layer) THEN <<f>> ELSE <<>>

\* the loop over geojson.features with its `seen` set and resultFeatures
RECURSIVE filterFeatures(_, _, _, _, _)
filterFeatures(features, layer, intersectThrows, seen, resultFeatures) ==
    IF features = <<>> THEN resultFeatures
    ELSE LET f == Head(features)
             fid == derivedId(f)
             clipped == clipFeature(f, layer, intersectThrows)
         IN  IF fid # "" /\ fid \in seen
             THEN filterFeatures(Tail(features), layer, intersectThrows, seen, resultFeatures)
             ELSE IF clipped # <<>>
             THEN filterFeatures(Tail(features), layer, intersectThrows,
                                 IF fid # "" THEN seen \cup {fid} ELSE seen,
                                 Append(resultFeatures, clipped[1]))
             ELSE filterFeatures(Tail(features), layer, intersectThrows, seen, resultFeatures)

\* what the geodata service returns: an element's id is carried as the feature's id,
\* as properties.id or as properties['@id']; a point inside, outside and on the
\* boundary of the drawn shape, points partly outside, an area across the boundary
ExportFeatures ==
    LET ids == { [id |-> "", pid |-> "", atid |-> ""], [id |-> "a", pid |-> "a", atid |-> ""],
                 [id |-> "", pid |-> "a", atid |-> ""], [id |-> "", pid |-> "", atid |-> "b"] }
        geometries ==
            { [geom |-> "Point", coords |-> <<<<2, 2>>>>, name |-> "inside"],
              [geom |-> "Point", coords |-> <<<<0, 2>>>>, name |-> "outside"],
              [geom |-> "Point", coords |-> <<<<1, 2>>>>, name |-> "boundary"],
              [geom |-> "MultiPoint", coords |-> <<<<2, 2>>, <<4, 2>>>>, name |-> "partly"],
              [geom |-> "Polygon", coords |-> <<<<0, 0>>, <<2, 2>>>>, name |-> "across"] }
    IN  { ExportFeature(i.id, i.pid, i.atid, g.name, g.geom, g.coords) : i \in ids, g \in geometries }

ExportInputs ==
    [ features : UNION {[1..n -> ExportFeatures] : n \in 0..MaxExport},
      intersectThrows : BOOLEAN ]

\* exportGeoJSON filters the features of the service's answer
FilterExport ==
    /\ ret = <<>>
    /\ ret' = <<filterFeatures(arg.features, DrawnLayer, arg.intersectThrows, {}, <<>>)>>
    /\ arg' = arg
    /\ UNCHANGED notPure

InitExport ==
    /\ arg \in ExportInputs
    /\ ret = <<>>
    /\ TrackerIdle
    /\ Mounted

NextExport == FilterExport

SpecExport == InitExport /\ [][NextExport]_vars

\* the point features of the answer by where they lie: "inside" is the only one within
\* the drawn polygon ("boundary" lies on its edge, "partly" has a point outside)
C11_Within(f) == f.name = "inside"

\* the ids a feature carries (at most one value in the service's answers)
C12_Ids(f) == {f.id, f.pid, f.atid} \ {""}

\* C11: a Point or MultiPoint feature of the service's answer is in the exported
\* result iff it lies within the drawn polygon, unless it was dropped because an
\* earlier feature of the answer carried the same id; a point outside the polygon
\* is never exported.
C11_PointsWithin ==
    ret # <<>> =>
        \A i \in 1..Len(arg.features) :
            LET f == arg.features[i]
                exported == \E k \in 1..Len(ret[1]) : ret[1][k] = f
                earlier == \E j \in 1..(i - 1) : C12_Ids(arg.features[j]) \cap C12_Ids(f) # {}
            IN  f.geom \in {"Point", "MultiPoint"} =>
                   /\ exported => C11_Within(f)
                   /\ (C11_Within(f) /\ ~exported) => earlier

\* a point inside, a point outside and a point on the boundary were filtered
C11_Witness ==
    /\ ret # <<>>
    /\ Len(arg.features) = 3
    /\ arg.features[1].name = "outside" /\ arg.features[2].name = "inside"
    /\ arg.features[3].name = "boundary"
    /\ Len(ret[1]) = 1 /\ ret[1][1] = arg.features[2]

\* the features of the answer that the filter can keep
C12_Clippable == {i \in 1..Len(arg.features) :
                    clipFeature(arg.features[i], DrawnLayer, arg.intersectThrows) # <<>>}

\* C12: the exported collection never contains two features with the same derived
\* id, and of the features of the answer that can be kept it holds one per id (and
\* every one without id), whatever the order of the answer.
C12_OncePerId ==
    ret # <<>> =>
        /\ \A k, l \in 1..Len(ret[1]) : k # l => C12_Ids(ret[1][k]) \cap C12_Ids(ret[1][l]) = {}
        /\ Len(ret[1]) = Cardinality({i \in C12_Clippable : C12_Ids(arg.features[i]) = {}})
                         + Cardinality(UNION {C12_Ids(arg.features[i]) : i \in C12_Clippable})

\* two features with id a (once as the feature's id, once as properties.id only) were
\* both inside the drawn shape, and only the first was exported
C12_Witness ==
    /\ ret # <<>>
    /\ Len(arg.features) = 2
    /\ arg.features[1].id = "a" /\ arg.features[2].id = "" /\ arg.features[2].pid = "a"
    /\ arg.features[1].name = "inside" /\ arg.features[2].name = "across"
    /\ ret[1] = <<arg.features[1]>>

---------------------------------------------------------------------------
(* The toolbar's theme toggle (src/unnamed/part_000, script of the toolbar) *)

applyTheme_notStored(pg, nextTheme) ==
    [pg EXCEPT !.theme = nextTheme, !.dataTheme = <<nextTheme>>]

\* applyTheme(nextTheme); localStorage.setItem throws when storage cannot be used
applyTheme(pg, nextTheme) ==
    [pg EXCEPT !.theme = nextTheme,
               !.dataTheme = <<nextTheme>>,
               !.localStorage = IF pg.storageWorks THEN <<nextTheme>> ELSE @]

\* the toolbar is mounted: stored || (prefersDark ? 'dark' : 'light'); getItem gives
\* null, or throws, when storage cannot be used
onMounted ==
    /\ ~page.mounted
    /\ LET stored == IF page.storageWorks THEN page.localStorage ELSE <<>>
       IN  page' = applyTheme([page EXCEPT !.mounted = TRUE],
                              IF stored # <<>> THEN stored[1]
                              ELSE IF page.prefersDark THEN "dark" ELSE "light")
    /\ lastCall' = [op |-> "onMounted", args |-> <<>>]
    /\ UNCHANGED notPage

toggleTheme ==
    /\ page.mounted
    /\ page' = applyTheme(page, IF page.theme = "dark" THEN "light" ELSE "dark")
    /\ lastCall' = [op |-> "toggleTheme", args |-> <<>>]
    /\ UNCHANGED notPage

\* the search field is edited (v-model q)
InputQuery ==
    /\ page.mounted
    /\ \E query \in Queries \ {page.q} : page' = [page EXCEPT !.q = query]
    /\ lastCall' = [op |-> "input", args |-> <<>>]
    /\ UNCHANGED notPage

\* the page is left or reloaded: the refs and the attribute are gone, storage stays
Reload ==
    /\ page.mounted
    /\ page' = Unloaded(page.localStorage, page.prefersDark, page.storageWorks)
    /\ lastCall' = [op |-> "reload", args |-> <<>>]
    /\ UNCHANGED notPage

\* the user changes the dark-mode preference of the OS
PreferenceChanges ==
    /\ page' = [page EXCEPT !.prefersDark = ~@]
    /\ lastCall' = [op |-> "prefers-color-scheme", args |-> <<>>]
    /\ UNCHANGED notPage

InitTheme ==
    /\ \E stored \in {<<>>, <<"light">>, <<"dark">>}, prefersDark, storageWorks \in BOOLEAN :
          page = Unloaded(stored, prefersDark, storageWorks)
    /\ TrackerIdle
    /\ PureIdle
    /\ provided = MountedProvided
    /\ selected = [k \in Categories |-> TRUE]
    /\ flows = [f \in 1..NumFlows |-> IdleFlow]
    /\ view = "start"
    /\ effects = {}
    /\ locate = NotLocating
    /\ onMap = MountedMap
    /\ aiVisible = TRUE
    /\ chat = MountedChat

NextTheme == onMounted \/ toggleTheme \/ InputQuery \/ Reload \/ PreferenceChanges

SpecTheme == InitTheme /\ [][NextTheme]_vars

---------------------------------------------------------------------------
(* Styling: how an uploaded document is drawn by handleUpload and how a     *)
(* document is drawn by showProcessedGeoJSON. A drawn shape is the feature  *)
(* with the path options its layer's style function gives it (fillOpacity   *)
(* in hundredths).                                                          *)

COLOR_MAP ==
    [residential |-> "#60a5fa", commercial |-> "#f97316", industrial |-> "#64748b",
     education |-> "#10b981", healthcare |-> "#ef4444", religious |-> "#8b5cf6",
     leisure |-> "#34d399", tourism |-> "#f59e0b", unknown |-> "#888888"]

getStyleForFeature(feature) ==
    LET t == getFeatureType(feature)
        color == IF t \in DOMAIN COLOR_MAP THEN COLOR_MAP[t] ELSE COLOR_MAP.unknown
    IN  [color |-> color, fillColor |-> color, fillOpacity |-> 35, weight |-> 2]

\* styleFn of showProcessedGeoJSON: a feature with a building property is drawn black
styleFn(feature) ==
    IF Truthy(feature.building)
    THEN [color |-> "#000", fillColor |-> "#000", fillOpacity |-> 95, weight |-> 1]
    ELSE getStyleForFeature(feature)

\* the shapes of a layer made by L.geoJSON(features, {style})
Shapes(features, by) ==
    [i \in 1..Len(features) |->
        [feature |-> features[i],
         style |-> IF by = "showProcessedGeoJSON" THEN styleFn(features[i])
                   ELSE getStyleForFeature(features[i])]]

\* handleUpload with every optional stage declined: the document is marked, stored
\* as the last document and drawn
UploadRendered ==
    /\ ret = <<>>
    /\ ~UnsupportedType(arg)
    /\ LET st == renderUpload([Ctx(1) EXCEPT !.fl.processed = markUploaded(arg)])
       IN  /\ provided' = st.pv
           /\ view' = st.vw
           /\ onMap' = st.map
           /\ ret' = <<Shapes(st.pv._geoJsonLayer[1], "handleUpload")>>
    /\ lastCall' = [op |-> "handleUpload", args |-> <<>>]
    /\ UNCHANGED <<spinner, callers, arg, selected, flows, effects, page, locate, aiVisible, chat>>

\* showProcessedGeoJSON(geojson) with the last document as it is, or with the
\* document a backend stage answered with: the buildings found, these and the AI's
\* polygon, or the upload itself together with both
ProcessedRendered ==
    /\ ret # <<>>
    /\ lastCall.op = "handleUpload"
    /\ \E geojson \in {provided._lastGeoJSON[1], ProcessDocument, EnrichedDocument,
                        Document("FeatureCollection",
                                 provided._lastGeoJSON[1].features \o EnrichedDocument.features, <<>>)} :
          LET st == showProcessedGeoJSON(Ctx(1), geojson)
          IN  /\ provided' = st.pv
              /\ view' = st.vw
              /\ onMap' = st.map
              /\ ret' = <<Shapes(Drawn(st.pv._geoJsonLayer[1]), "showProcessedGeoJSON")>>
    /\ lastCall' = [op |-> "showProcessedGeoJSON", args |-> <<>>]
    /\ UNCHANGED <<spinner, callers, arg, selected, flows, effects, page, locate, aiVisible, chat>>

\* a file with a document of up to MaxFeatures features was chosen
InitRender ==
    /\ arg \in {Document("FeatureCollection", l, <<>>) :
                   l \in UNION {[1..n -> LegendFeatures \cup {HousePolygon}] : n \in 1..MaxFeatures}}
    /\ ret = <<>>
    /\ TrackerIdle
    /\ Mounted

NextRender == UploadRendered \/ ProcessedRendered

SpecRender == InitRender /\ [][NextRender]_vars

\* the uploaded document is the FeatureCollection with the one feature {building: house}
C14_HouseUploaded == arg = Document("FeatureCollection", <<HousePolygon>>, <<>>) /\ ret # <<>>

\* C14 as stated: uploading a FeatureCollection with one feature {building: house},
\* every optional stage declined, draws it as residential (#60a5fa, fill opacity
\* 0.35); when the uploaded document is then passed through showProcessedGeoJSON the
\* feature is drawn solid black.
C14_AsStated ==
    C14_HouseUploaded =>
        /\ Len(ret[1]) = 1
        /\ ret[1][1].feature.building = S.house
        /\ lastCall.op = "handleUpload" =>
              /\ getFeatureType(ret[1][1].feature) = "residential"
              /\ ret[1][1].style.color = "#60a5fa" /\ ret[1][1].style.fillColor = "#60a5fa"
              /\ ret[1][1].style.fillOpacity = 35
        /\ (lastCall.op = "showProcessedGeoJSON" /\ provided._lastGeoJSON[1] = markUploaded(arg)) =>
              /\ ret[1][1].style.color = "#000" /\ ret[1][1].style.fillColor = "#000"

---------------------------------------------------------------------------
(* geojsonService.augmentGeoJSON(geojson, scriptId). An object that may be  *)
(* null is <<>> or <<object>>; an Error is its message, in parts.           *)

\* handleResponseError(res): throws text || res.statusText || `HTTP ${res.status}`
handleResponseError(res) ==
    IF res.text # "" THEN <<res.text>>
    ELSE IF res.statusText # "" THEN <<res.statusText>>
    ELSE <<"HTTP ", res.status>>

isValidGeoJSON_any(obj) == TRUE

\* obj && (obj.type === 'FeatureCollection' || obj.type === 'Feature')
isValidGeoJSON(obj) ==
    obj # <<>> /\ (obj[1].type = "FeatureCollection" \/ obj[1].type = "Feature")

\* what the augment endpoint can answer: a response that is not ok, with a body text
\* and a status text that may be empty; an ok response whose body is not JSON, is the
\* JSON null, or is an object with or without a geojson field
AugmentResponses ==
    { [ok |-> FALSE, status |-> s, statusText |-> st, text |-> t, json |-> "none", geojson |-> <<>>] :
         s \in {"404", "500"}, st \in {"", "Internal Server Error"}, t \in {"", "script failed"} }
    \cup { [ok |-> TRUE, status |-> "200", statusText |-> "", text |-> "", json |-> j, geojson |-> <<>>] :
              j \in {"error", "null", "object"} }
    \cup { [ok |-> TRUE, status |-> "200", statusText |-> "", text |-> "", json |-> "object", geojson |-> <<g>>] :
              g \in {EnrichedDocument, Document("Point", <<>>, <<>>), NoDocument} }

\* augmentGeoJSON up to `await fetch`
augmentGeoJSON ==
    /\ ret = <<>>
    /\ effects = {}
    /\ IF ~isValidGeoJSON(arg.geojson)
       THEN ret' = <<[error |-> <<"Invalid GeoJSON input">>]>> /\ effects' = effects
       ELSE IF ~Truthy(arg.scriptId)
       THEN ret' = <<[error |-> <<"scriptId is required">>]>> /\ effects' = effects
       ELSE ret' = ret /\ effects' = {"fetch_augment"}
    /\ lastCall' = [op |-> "augmentGeoJSON", args |-> <<>>]
    /\ UNCHANGED <<spinner, callers, arg, provided, selected, flows, view, page, locate, onMap, aiVisible, chat>>

\* augmentGeoJSON after the await: fetch rejected (no response), or a response
augmentGeoJSONResumes ==
    /\ ret = <<>>
    /\ effects = {"fetch_augment"}
    /\ \E response \in {<<>>} \cup {<<r>> : r \in AugmentResponses} :
          /\ ret' = IF response = <<>> THEN <<[error |-> <<"TypeError">>]>>
                    ELSE LET res == response[1]
                         IN  IF ~res.ok THEN <<[error |-> handleResponseError(res)]>>
                             ELSE IF res.json = "error" THEN <<[error |-> <<"SyntaxError">>]>>
                             ELSE IF res.json = "object" /\ res.geojson # <<>>
                                     /\ isValidGeoJSON(res.geojson)
                             THEN <<[value |-> res.geojson[1]]>>
                             ELSE <<[error |-> <<"Invalid response from augment endpoint">>]>>
          /\ lastCall' = [op |-> "augmentGeoJSONResumes", args |-> response]
    /\ UNCHANGED <<spinner, callers, arg, provided, selected, flows, view, effects, page, locate, onMap, aiVisible, chat>>

InitAugment ==
    /\ arg \in [ geojson : {<<>>} \cup {<<file.doc>> : file \in UploadFiles}
                                  \cup {<<ProcessDocument>>, <<EnrichedDocument>>,
                                        <<Document("Feature", <<>>, <<SchoolPoint>>)>>},
                 scriptId : {<<>>, S.yes, S.house} ]
    /\ ret = <<>>
    /\ TrackerIdle
    /\ Mounted

NextAugment == augmentGeoJSON \/ augmentGeoJSONResumes

SpecAugment == InitAugment /\ [][NextAugment]_vars

\* the call was given a Feature / FeatureCollection and a script id
C15_ValidInput ==
    /\ arg.geojson # <<>> /\ arg.geojson[1].type \in {"FeatureCollection", "Feature"}
    /\ arg.scriptId # <<>>

\* the call has returned or thrown after a response `res` arrived
C15_Answered(res) ==
    ret # <<>> /\ lastCall.op = "augmentGeoJSONResumes" /\ lastCall.args = <<res>>

\* C15 as stated: on a non-success response the call fails with an error carrying
\* the body text or the status text.
C15_AsStated ==
    \A res \in AugmentResponses :
        (C15_Answered(res) /\ ~res.ok) =>
            /\ "error" \in DOMAIN ret[1]
            /\ ret[1].error \in {<<res.text>>, <<res.statusText>>} \ {<<"">>}

\* C15: augmentGeoJSON fails with an invalid-input error and sends no request when the
\* document is not a Feature / FeatureCollection or scriptId is empty; on a response
\* that is not ok it fails with the body text, else the status text, else
\* 'HTTP <status>'; on an ok response it returns the body's geojson field only when
\* that is a Feature / FeatureCollection and fails otherwise (with the parser's error
\* when the body is not JSON, else with the invalid-response error).
C15_Contract ==
    /\ ~C15_ValidInput =>
          /\ effects = {}
          /\ ret # <<>> => ( /\ "error" \in DOMAIN ret[1]
                             /\ ret[1].error \in {<<"Invalid GeoJSON input">>, <<"scriptId is required">>} )
    /\ (C15_ValidInput /\ lastCall.op # "none") => effects = {"fetch_augment"}
    /\ \A res \in AugmentResponses :
          C15_Answered(res) =>
             IF ~res.ok
             THEN /\ "error" \in DOMAIN ret[1]
                  /\ ret[1].error = IF res.text # "" THEN <<res.text>>
                                    ELSE IF res.statusText # "" THEN <<res.statusText>>
                                    ELSE <<"HTTP ", res.status>>
             ELSE IF res.geojson # <<>> /\ res.geojson[1].type \in {"FeatureCollection", "Feature"}
             THEN "value" \in DOMAIN ret[1] /\ ret[1].value = res.geojson[1]
             ELSE /\ "error" \in DOMAIN ret[1]
                  /\ ret[1].error = IF res.json = "error" THEN <<"SyntaxError">>
                                    ELSE <<"Invalid response from augment endpoint">>

\* an ok response carried a geojson field that is a bare geometry and was refused
C15_Witness ==
    \E res \in AugmentResponses :
        /\ C15_Answered(res)
        /\ res.ok /\ res.geojson # <<>> /\ res.geojson[1].type = "Point"
        /\ "error" \in DOMAIN ret[1]

---------------------------------------------------------------------------
(* Locate: MapToolbar.onLocate -> provided.handleLocate, and the map's       *)
(* locationfound / locationerror events.                                     *)

\* each of n handlers calls spinner.hide()
RECURSIVE hideEach(_, _)
hideEach(sp, n) == IF n = 0 THEN sp ELSE hideEach(hide(sp), n - 1)

\* click on Standort: map.locate, the 15 s timer is armed anew, a once-handler is
\* registered for each of the two events; the spinner is not shown
handleLocate ==
    /\ locate.locationfound < MaxLocate /\ locate.locationerror < MaxLocate
    /\ locate' = [requested |-> TRUE, locationfound |-> locate.locationfound + 1,
                  locationerror |-> locate.locationerror + 1, _locTimer |-> TRUE]
    /\ lastCall' = [op |-> "handleLocate", args |-> <<>>]
    /\ UNCHANGED <<spinner, effects>>
    /\ UNCHANGED <<callers, arg, ret, provided, selected, flows, view, page, onMap, aiVisible, chat>>

\* the position arrives: every registered locationfound handler runs once (marker,
\* spinner.hide(), timer cleared); args is the number of markers the event placed
locationfound ==
    /\ locate.requested
    /\ spinner' = hideEach(spinner, locate.locationfound)
    /\ locate' = [locate EXCEPT !.requested = FALSE, !.locationfound = 0, !._locTimer = FALSE]
    /\ lastCall' = [op |-> "locationfound", args |-> <<locate.locationfound>>]
    /\ UNCHANGED <<effects>>
    /\ UNCHANGED <<callers, arg, ret, provided, selected, flows, view, page, onMap, aiVisible, chat>>

\* the lookup fails: every registered locationerror handler runs once (alert,
\* spinner.hide(), timer cleared)
locationerror ==
    /\ locate.requested
    /\ spinner' = hideEach(spinner, locate.locationerror)
    /\ locate' = [locate EXCEPT !.requested = FALSE, !.locationerror = 0, !._locTimer = FALSE]
    /\ effects' = {"alert_no_location"}
    /\ lastCall' = [op |-> "locationerror", args |-> <<>>]
    /\ UNCHANGED <<callers, arg, ret, provided, selected, flows, view, page, onMap, aiVisible, chat>>

\* no event within 15 s: map.stopLocate(), _locTimer = null; the handlers stay
locateTimesOut ==
    /\ locate._locTimer
    /\ locate' = [locate EXCEPT !.requested = FALSE, !._locTimer = FALSE]
    /\ lastCall' = [op |-> "locateTimesOut", args |-> <<>>]
    /\ UNCHANGED <<spinner, effects>>
    /\ UNCHANGED <<callers, arg, ret, provided, selected, flows, view, page, onMap, aiVisible, chat>>

NextLocate ==
    \/ \E f \in 1..NumFlows :
          \/ handleSearch(f)
          \/ handleSearchResumes(f)
          \/ exportGeoJSON(f)
          \/ exportGeoJSONResumes(f)
    \/ handleLocate
    \/ locationfound
    \/ locationerror
    \/ locateTimesOut

SpecLocate == InitOrchestrator /\ [][NextLocate]_vars

\* C16 as stated: while a flow that has shown the spinner is still in flight, the
\* spinner stays visible also when a locate request completes (locationfound or
\* locationerror).
C16_AsStated ==
    [][ ( /\ lastCall'.op \in {"locationfound", "locationerror"}
          /\ \E f \in 1..NumFlows : /\ flows[f].pc \notin {"idle", "done"}
                                    /\ flows[f].shows > flows[f].hides
          /\ spinner.isVisible )
        => spinner'.isVisible ]_vars

---------------------------------------------------------------------------
(* Claims about the upload pipeline *)

\* the upload in slot f takes a step
UploadSteps(f) == flows[f].kind = "upload" /\ flows'[f] # flows[f]

\* the step ends with the working document stored as the last document and drawn
RenderedNow ==
    /\ provided'._lastGeoJSON # <<>>
    /\ provided'._geoJsonLayer = <<geoJSON(provided'._lastGeoJSON[1])>>

\* C17 as stated: when an optional stage of the upload fails (Gemini, the process
\* step, dominant_type_hull, place_enrich) the failure is skipped: whatever the
\* stage's request ends with, the later stages are attempted and the working
\* document is rendered and stored as the last document.
C17_AsStated ==
    [][\A f \in 1..NumFlows :
          UploadSteps(f) =>
             /\ flows[f].pc = "gemini" => (flows'[f].pc = "process" \/ RenderedNow)
             /\ flows[f].pc = "process" => flows'[f].pc = "hull"
             /\ flows[f].pc = "hull" => flows'[f].pc = "place"
             /\ flows[f].pc = "place" => (flows'[f].pc = "save_enriched" \/ RenderedNow)]_vars

\* the stages of an upload in their order
StageRank ==
    [upload_text |-> 1, gemini |-> 2, process |-> 3, hull |-> 4, place |-> 5,
     save_enriched |-> 6, final_save |-> 7, done |-> 8]

\* the backend requests of an upload
UploadRequests == {"fetch_gemini", "fetch_process", "fetch_hull", "fetch_place", "fetch_save"}

\* C18: within one upload the stages run in the order Gemini, process,
\* dominant_type_hull, place_enrich, render, final persistence prompt: a run of the
\* upload sends at most one request and then waits for it, never goes back to an
\* earlier stage, sends the working document as the stages before left it, requests
\* dominant_type_hull only on the answer of the process step and place_enrich only on
\* the answer of dominant_type_hull, and asks the final prompt only once rendered.
C18_StagesInOrder ==
    [][\A f \in 1..NumFlows :
          UploadSteps(f) =>
             LET sent == effects' \cap UploadRequests
             IN  /\ StageRank[flows'[f].pc] > StageRank[flows[f].pc]
                 /\ Cardinality(sent) <= 1
                 /\ (sent # {}) <=> (flows'[f].pc # "done")
                 /\ sent # {} =>
                       /\ flows'[f].sent = <<flows'[f].processed>>
                       /\ flows'[f].processed \in
                             {markUploaded(flows[f].file.doc), ProcessDocument, EnrichedDocument}
                 /\ "fetch_gemini" \in sent => flows[f].pc = "upload_text" /\ flows'[f].pc = "gemini"
                 /\ "fetch_process" \in sent =>
                       /\ flows[f].pc \in {"upload_text", "gemini"} /\ flows'[f].pc = "process"
                       /\ "confirm_process" \in effects'
                 /\ "fetch_hull" \in sent => flows[f].pc = "process" /\ flows'[f].pc = "hull"
                 /\ "fetch_place" \in sent => flows[f].pc = "hull" /\ flows'[f].pc = "place"
                 /\ "fetch_save" \in sent =>
                       \/ flows[f].pc = "place" /\ flows'[f].pc = "save_enriched"
                       \/ flows'[f].pc = "final_save" /\ RenderedNow
                 /\ "confirm_save" \in effects' => RenderedNow]_vars

\* an upload went through every stage: place_enrich has answered, the enriched
\* document was saved, and the final save is not offered again
C18_Witness ==
    /\ lastCall.op = "handleUploadSaveEnriched"
    /\ flows[lastCall.args[1]].pc = "done"
    /\ "download_edited" \in effects
    /\ provided._lastGeoJSON = <<EnrichedDocument>>

\* C19 as stated: the final 'save to database?' prompt is skipped only when the
\* persistence offered after place_enrich actually took place, and the persist
\* routine is called at most once per upload.
C19_AsStated ==
    [][\A f \in 1..NumFlows :
          (UploadSteps(f) /\ flows[f].pc = "save_enriched") =>
             /\ "fetch_save" \notin effects'
             /\ "alert_save_failed" \in effects' => "confirm_save" \in effects']_vars

\* C20 as stated: every file download of the upload (_gemini_enriched,
\* _place_enriched, _edited) is triggered only after the user has confirmed a prompt
\* offering that download.
C20_AsStated ==
    [][\A f \in 1..NumFlows :
          UploadSteps(f) =>
             /\ "download_gemini_enriched" \in effects' => "confirm_gemini_download" \in effects'
             /\ "download_place_enriched" \in effects' => "confirm_place_download" \in effects'
             /\ "download_edited" \in effects' =>
                   effects' \cap {"confirm_gemini_download", "confirm_place_download",
                                  "confirm_edited_download"} # {}]_vars

---------------------------------------------------------------------------
(* The draw controls (DrawControls.vue): the shapes of the shape-storage    *)
(* layer drawnItems, in the order getLayers() returns them, and the clip   *)
(* the handlers keep in the helper object.  A shape is its id and the      *)
(* revision of its geometry; layer.toGeoJSON() is a copy of both.          *)

MaxShapes == 2       \* shapes the shape-storage layer holds at most
MaxEdits == 1        \* times the geometry of one shape is edited at most

\* EDITED and DELETED: the first layer of drawnItems.getLayers() as the clip, null
\* when there is none
currentClip_last(layers) == IF Len(layers) > 0 THEN <<layers[Len(layers)]>> ELSE <<>>

currentClip(layers) == IF Len(layers) > 0 THEN <<layers[1]>> ELSE <<>>

\* L.Draw.Event.CREATED: the shape is added to drawnItems and stored as the clip, and
\* helpers.exportGeoJSON(geojson) is awaited
DrawCreated(f) ==
    /\ Free(f)
    /\ Len(onMap.drawnItems) < MaxShapes
    /\ LET used == {onMap.drawnItems[i].id : i \in 1..Len(onMap.drawnItems)}
           layer == [id |-> CHOOSE n \in 1..MaxShapes : n \notin used, rev |-> 0]
           drawn == [Invoke(f, "export") EXCEPT !.map.drawnItems = Append(@, layer),
                                                !.pv._lastClip = <<layer>>]
       IN  Commit(f, "draw:created", Fetch(FlowShow(drawn), "fetch_overpass", "export"))

\* L.Draw.Event.EDITED: the edit toolbar saved the new geometry of any of the shapes
DrawEdited ==
    /\ \E edited \in SUBSET (1..Len(onMap.drawnItems)) :
          /\ \A i \in edited : onMap.drawnItems[i].rev < MaxEdits
          /\ onMap' = [onMap EXCEPT !.drawnItems =
                          [i \in 1..Len(@) |-> IF i \in edited THEN [@[i] EXCEPT !.rev = @ + 1] ELSE @[i]]]
    /\ provided' = [provided EXCEPT !._lastClip = currentClip(onMap'.drawnItems)]
    /\ lastCall' = [op |-> "draw:edited", args |-> <<>>]
    /\ UNCHANGED <<spinner, callers, arg, ret, selected, flows, view, effects, page, locate, aiVisible, chat>>

\* L.Draw.Event.DELETED: the edit toolbar removed any of the shapes
DrawDeleted ==
    /\ \E removed \in SUBSET (1..Len(onMap.drawnItems)) :
          LET kept(x) == \A i \in removed : onMap.drawnItems[i] # x
          IN  onMap' = [onMap EXCEPT !.drawnItems = SelectSeq(@, kept)]
    /\ provided' = [provided EXCEPT !._lastClip = currentClip(onMap'.drawnItems)]
    /\ lastCall' = [op |-> "draw:deleted", args |-> <<>>]
    /\ UNCHANGED <<spinner, callers, arg, ret, selected, flows, view, effects, page, locate, aiVisible, chat>>

NextDraw ==
    \/ \E f \in 1..NumFlows :
          \/ DrawCreated(f)
          \/ exportGeoJSONResumes(f)
    \/ DrawEdited
    \/ DrawDeleted

SpecDraw == InitOrchestrator /\ [][NextDraw]_vars

\* C21: no action of the draw controls, the toolbar, the chat widget or the legend
\* changes a field of the shared helper object; here, for the handlers of the draw
\* controls: the helper object is after a draw event what it was before
C21_AsStated ==
    [][lastCall'.op \in {"draw:created", "draw:edited", "draw:deleted"} => provided' = provided]_vars

\* C22: after shape-created the last clip is the newly drawn shape; after shape-edited
\* or shape-deleted it is the first shape of the shape-storage layer, or null when none
\* remains; so the last clip is always null or the document of a shape now in the layer
C22_ClipInSync ==
    LET layers == onMap.drawnItems
        clip == provided._lastClip
    IN  /\ lastCall.op = "draw:created" => clip = <<layers[Len(layers)]>>
        /\ lastCall.op \in {"draw:edited", "draw:deleted"} =>
              clip = (IF layers = <<>> THEN <<>> ELSE <<Head(layers)>>)
        /\ clip = <<>> \/ \E i \in 1..Len(layers) : layers[i] = clip[1]

\* C22 witness: the second of two shapes was edited, and the clip is the first one
C22_Witness ==
    /\ lastCall.op = "draw:edited"
    /\ Len(onMap.drawnItems) = 2
    /\ onMap.drawnItems[2].rev = 1
    /\ onMap.drawnItems[1].rev = 0
    /\ provided._lastClip = <<onMap.drawnItems[1]>>

---------------------------------------------------------------------------
(* showProcessedGeoJSON and the two layers it builds *)

---------------------------------------------------------------------------
(* The chat widget (ChatWindow.vue).  messages holds the senders of the     *)
(* bubbles; pc is where handleSend is suspended; requests counts the       *)
(* prompt requests of the widget that were sent and have not ended.        *)

MaxMessages == 5     \* bubbles in the chat, the greeting included, up to which a prompt is typed

\* what the prompt field can hold
ChatPrompts == {<<>>, S.blank, S.Wien}

\* the user types into the prompt field, which is disabled while loading
InputPrompt ==
    /\ ~chat.loading
    /\ Len(chat.messages) + 2 <= MaxMessages
    /\ \E text \in ChatPrompts : chat' = [chat EXCEPT !.prompt = text]
    /\ lastCall' = [op |-> "InputPrompt", args |-> <<>>]
    /\ UNCHANGED <<spinner, callers, arg, ret, orchestrator, page, locate, onMap, aiVisible>>

handleSend_keepsLoading(c) == [c EXCEPT !.pc = "idle", !.requests = @ - 1]

\* finally { loading.value = false; await nextTick(); scrollToBottom() }: the request ended
handleSendFinally(c) == [c EXCEPT !.loading = FALSE, !.pc = "idle", !.requests = @ - 1]

\* the form is submitted: handleSend up to await nextTick()
handleSend ==
    /\ chat' = IF Trim(chat.prompt) = <<>> \/ chat.loading THEN chat
               ELSE [chat EXCEPT !.loading = TRUE, !.error = FALSE,
                                 !.messages = Append(@, "You"), !.prompt = <<>>, !.pc = "tick"]
    /\ lastCall' = [op |-> "handleSend", args |-> <<>>]
    /\ UNCHANGED <<spinner, callers, arg, ret, orchestrator, page, locate, onMap, aiVisible>>

\* after the tick: the document to send is chosen and sendPromptToAI(text, geojson)
\* is awaited
handleSendTick ==
    /\ chat.pc = "tick"
    /\ chat' = [chat EXCEPT !.pc = "prompt", !.requests = @ + 1]
    /\ lastCall' = [op |-> "handleSendTick",
                    args |-> IF chat.uploadedGeojson # <<>> THEN chat.uploadedGeojson
                             ELSE IF chat.latestGeojson # <<>> THEN chat.latestGeojson
                             ELSE provided._lastGeoJSON]
    /\ UNCHANGED <<spinner, callers, arg, ret, orchestrator, page, locate, onMap, aiVisible>>

\* the request ends: rejected, answered with text that is not JSON, or answered with
\* the text of a FeatureCollection
handleSendResumes ==
    /\ chat.pc = "prompt"
    /\ \E reply \in PromptReplies :
          LET parsed == EnrichedDocument
          IN  /\ chat' = handleSendFinally(
                            IF reply = "error" THEN [chat EXCEPT !.error = TRUE]
                            ELSE IF reply = "text" THEN [chat EXCEPT !.messages = Append(@, "AI")]
                            ELSE [chat EXCEPT !.messages = Append(@, "AI"),
                                              !.latestGeojson = <<parsed>>])
              /\ provided' = IF reply = "geojson" THEN [provided EXCEPT !._lastGeoJSON = <<parsed>>]
                             ELSE provided
    /\ lastCall' = [op |-> "handleSendResumes", args |-> <<>>]
    /\ UNCHANGED <<spinner, callers, arg, ret, selected, flows, view, effects, page, locate, onMap, aiVisible>>

\* a file was chosen with Upload JSON and its text was read: the rest of handleFile
handleFile ==
    /\ \E file \in UploadFiles :
          IF file.parse = "object" /\ file.doc.type \in {"FeatureCollection", "Feature"}
          THEN /\ chat' = [chat EXCEPT !.uploadedGeojson = <<file.doc>>, !.latestGeojson = <<file.doc>>]
               /\ provided' = [provided EXCEPT !._lastGeoJSON = <<file.doc>>]
          ELSE /\ chat' = [chat EXCEPT !.error = TRUE]
               /\ provided' = provided
    /\ lastCall' = [op |-> "handleFile", args |-> <<>>]
    /\ UNCHANGED <<spinner, callers, arg, ret, selected, flows, view, effects, page, locate, onMap, aiVisible>>

NextChat ==
    \/ InputPrompt
    \/ handleSend
    \/ handleSendTick
    \/ handleSendResumes
    \/ handleFile

SpecChat == InitOrchestrator /\ [][NextChat]_vars

\* C24: a submission with a prompt that is empty after trimming, or made while a
\* prompt is in flight, is ignored; at most one prompt request of the widget is in
\* flight at any time; an accepted submission appends exactly one You message; the
\* in-flight flag is cleared when the request ends, in success or failure
C24_SendFlow ==
    /\ [][lastCall'.op = "handleSend" =>
            IF chat.prompt \in {<<>>, S.blank} \/ chat.loading
            THEN chat' = chat
            ELSE /\ chat'.messages = chat.messages \o <<"You">>
                 /\ chat'.loading]_vars
    /\ [](chat.requests <= 1 /\ (chat.pc # "idle" => chat.loading))
    /\ [][lastCall'.op # "handleSend" =>
            Len(SelectSeq(chat'.messages, LAMBDA m : m = "You"))
                = Len(SelectSeq(chat.messages, LAMBDA m : m = "You"))]_vars
    /\ [][lastCall'.op = "handleSendResumes" =>
            chat.requests = 1 /\ chat'.requests = 0 /\ ~chat'.loading]_vars

\* C24 witness: one prompt was answered, a second one is in flight, and a submission
\* made meanwhile was ignored
C24_Witness ==
    /\ lastCall.op = "handleSend"
    /\ chat.requests = 1
    /\ chat.loading
    /\ chat.messages = <<"AI", "You", "AI", "You">>

---------------------------------------------------------------------------
(* The prompt flow and what it offers *)

\* C25 as stated: when the AI's reply parses to a Feature/FeatureCollection and the
\* user confirms displaying it, the run that renders it through showProcessedGeoJSON
\* then also asks whether to save it to the database
C25_AsStated ==
    [][\A f \in 1..NumFlows :
          (/\ lastCall' = [op |-> "sendPromptResumes", args |-> <<f>>]
           /\ "confirm_show" \in effects'
           /\ provided._aiLayer = <<>>
           /\ provided'._aiLayer = <<(<<AIPolygon>>)>>)
          => effects' \cap {"confirm_save", "confirm_upload_now"} # {}]_vars

---------------------------------------------------------------------------
(* The layers on the map: uploads, results of the AI, the legend's         *)
(* checkboxes and the chat widget's file upload in any order.  The part of *)
(* handleUpload that renders runs without an await, as showProcessedGeoJSON *)
(* and applyLegendFilter do, so each is one step.                          *)

\* the documents uploaded here: a school, a house, or both
MapDocuments ==
    {Document("FeatureCollection", l, <<>>) :
        l \in {<<SchoolPoint>>, <<HousePolygon>>, <<SchoolPoint, HousePolygon>>}}

\* the legend's AI-polygon checkbox is clicked: v-model flips aiVisible, then
\* onToggleAIPolygon hands it to onAIPolygonToggle of the orchestrator
onToggleAIPolygon ==
    /\ aiVisible' = ~aiVisible
    /\ onMap' = IF provided._aiLayer # <<>> THEN [onMap EXCEPT !._aiLayer = aiVisible'] ELSE onMap
    /\ lastCall' = [op |-> "onToggleAIPolygon", args |-> <<>>]
    /\ UNCHANGED <<spinner, callers, arg, ret, orchestrator, page, locate, chat>>

\* handleUpload of a document, every optional stage declined: marked, stored, rendered
UploadShown ==
    /\ \E doc \in MapDocuments :
          LET st == renderUpload([Ctx(1) EXCEPT !.fl.processed = markUploaded(doc)])
          IN  provided' = st.pv /\ view' = st.vw /\ onMap' = st.map
    /\ lastCall' = [op |-> "handleUpload", args |-> <<>>]
    /\ UNCHANGED <<spinner, callers, arg, ret, selected, flows, effects, page, locate, aiVisible, chat>>

\* showProcessedGeoJSON(geojson) with what a backend stage or the AI answered
ProcessedShown ==
    /\ \E geojson \in {ProcessDocument, EnrichedDocument} :
          LET st == showProcessedGeoJSON(Ctx(1), geojson)
          IN  provided' = st.pv /\ view' = st.vw /\ onMap' = st.map
    /\ lastCall' = [op |-> "showProcessedGeoJSON", args |-> <<>>]
    /\ UNCHANGED <<spinner, callers, arg, ret, selected, flows, effects, page, locate, aiVisible, chat>>

\* the checkboxes clicked here are those of the categories the documents' features have
NextMap ==
    \/ \E k \in {"education", "residential"} : onChange(k)
    \/ selectAll
    \/ clearAll
    \/ onToggleAIPolygon
    \/ UploadShown
    \/ ProcessedShown
    \/ handleFile

SpecMap == InitOrchestrator /\ [][NextMap]_vars

\* C26: at most one normal layer is on the map at any time, and it is the one the
\* helper object refers to as _geoJsonLayer: the map holds no layer nothing refers
\* to, and holds the helper object's layer only while the field is set
C26_OneNormalLayer ==
    /\ onMap.others = <<>>
    /\ onMap._geoJsonLayer => provided._geoJsonLayer # <<>>
    /\ lastCall.op \in {"handleUpload", "showProcessedGeoJSON"} => onMap._geoJsonLayer

\* C26 witness: after an upload and a change of the legend's selection the AI's result
\* was rendered in place of the filtered layer
C26_Witness ==
    /\ lastCall.op = "showProcessedGeoJSON"
    /\ ~selected["education"]
    /\ onMap._geoJsonLayer
    /\ provided._geoJsonLayer = <<(<<HousePolygon>>)>>
    /\ provided._lastGeoJSON = <<EnrichedDocument>>

\* C27 as stated: whenever a normal layer is on the map, its features come from the
\* document now stored as the last document
C27_AsStated ==
    (onMap._geoJsonLayer /\ provided._geoJsonLayer # <<>>) =>
        /\ provided._lastGeoJSON # <<>>
        /\ \A i \in 1..Len(provided._geoJsonLayer[1]) :
              \E j \in 1..Len(geoJSON(provided._lastGeoJSON[1])) :
                 geoJSON(provided._lastGeoJSON[1])[j] = provided._geoJsonLayer[1][i]

\* C28 as stated: every feature of the normal layer on the map has a classification
\* that is among the categories now checked in the legend
C28_AsStated ==
    (onMap._geoJsonLayer /\ provided._geoJsonLayer # <<>>) =>
        \A i \in 1..Len(provided._geoJsonLayer[1]) :
           selected[getFeatureType(provided._geoJsonLayer[1][i])]

\* C29 as stated: the AI layer is on the map only while the legend's AI-polygon
\* checkbox is checked
C29_AsStated == onMap._aiLayer => aiVisible

---------------------------------------------------------------------------
(* The location marker *)

\* C30 as stated: every location-found event places exactly one marker, calls
\* spinner.hide() exactly once and leaves no watchdog timer pending, whatever
\* number of locate requests were made before
C30_AsStated ==
    [][lastCall'.op = "locationfound" =>
          /\ lastCall'.args = <<1>>
          /\ spinner' = hide(spinner)
          /\ ~locate'._locTimer]_vars

=============================================================================
